---------------------------- MODULE Spec2Model ----------------------------
(***************************************************************************)
(* Formations module of Backend-Hydia: the FormationController handlers    *)
(* and the FormationService operations they call, over the tables declared *)
(* in the SQL migration scripts (foreign keys with ON DELETE CASCADE).     *)
(*                                                                         *)
(* Every await of a handler on the persistence service is one step: two    *)
(* requests interleave between their awaits, never inside a synchronous    *)
(* stretch of code.  A call to the persistence service either succeeds or  *)
(* reports an error; which of the two is an input of the step (ok).        *)
(* An update whose timestamp the service computes before sending it is     *)
(* sent in one step and applied in the next.                               *)
(***************************************************************************)
EXTENDS Integers, Sequences, FiniteSets, TLC

VARIABLES
    formations,         \* rows of table formations
    quizzes,            \* rows of table quizzes
    quiz_questions,     \* rows of table quiz_questions
    quiz_answers,       \* rows of table quiz_answers
    user_quiz_results,  \* rows of table user_quiz_results
    user_progress,      \* rows of table user_progress
    schema,             \* which of the SQL scripts' constraints the database has
    storage,            \* objects of the storage bucket 'formations'
    nextId,             \* per table, the next primary key the database generates
    now,                \* the clock read by new Date() / NOW()
    submit,             \* per request slot, the submitQuiz request in flight
    upload,             \* per request slot, the upload request in flight
    update,             \* per request slot, the PUT /formations/:id request in flight
    create,             \* per request slot, the createQuiz request in flight
    response,           \* per request slot, the last response sent (status, message)
    raced,              \* observation: (user, quiz) pairs that had overlapping submissions
    deleted             \* observation: formation ids whose deleteFormation succeeded

dbVars == <<formations, quizzes, quiz_questions, quiz_answers, user_quiz_results,
            user_progress, schema, storage, nextId>>
vars == <<formations, quizzes, quiz_questions, quiz_answers, user_quiz_results,
          user_progress, schema, storage,
          nextId, now, submit, upload, update, create, response, raced, deleted>>

-----------------------------------------------------------------------------
(* Bounds of the model. *)

NumProcs == 2
MaxResults == 3
MaxEntries == 2
MaxQuestions == 2
MaxFormations == 2
MaxQuizzes == 2
MaxClock == 2
MaxUploads == 1
MaxProgress == 3

(* Program constants. *)

DefaultPassingScore == 70
DefaultMaxAttempts == 3

Procs == 1..NumProcs
Users == {"u1", "u2"}
\* ids are positive integers; NullId stands for null / undefined where an id is read
NullId == 0

\* null where a text is stored
NullText == "null"
\* null where a path or a file name (a sequence) is stored
NullPath == << >>

Idle == [pc |-> "idle"]

Max(S) == CHOOSE x \in S : \A y \in S : y <= x
Min(S) == CHOOSE x \in S : \A y \in S : x <= y

-----------------------------------------------------------------------------
(* The persistence service: foreign keys and cascades of the schema. *)

Ids(rows) == {r.id : r \in rows}

\* quizzes.formation_id REFERENCES formations(id) ON DELETE CASCADE
QuizzesOf(fids) == {q \in quizzes : q.formation_id \in fids}
\* quiz_questions.quiz_id REFERENCES quizzes(id) ON DELETE CASCADE
QuestionsOf(qids) == {x \in quiz_questions : x.quiz_id \in qids}
\* quiz_answers.question_id REFERENCES quiz_questions(id) ON DELETE CASCADE
AnswersOf(xids) == {a \in quiz_answers : a.question_id \in xids}
\* user_quiz_results.quiz_id REFERENCES quizzes(id) ON DELETE CASCADE
ResultsOf(qids) == {r \in user_quiz_results : r.quiz_id \in qids}

-----------------------------------------------------------------------------
(* FormationService.getQuizById and the scoring of submitQuizResult. *)

\* getQuizById: the rows with the id; none stands for the null it returns when
\* .single() reports an error (no such row, or the query failed: ok = FALSE)
GetQuizById(quizId, ok) ==
    IF ok THEN {q \in quizzes : q.id = quizId} ELSE {}

\* the sequences that hold every element of S once
Orderings(S) ==
    {s \in [1..Cardinality(S) -> S] : \A i, j \in 1..Cardinality(S) : i /= j => s[i] /= s[j]}

\* The select of getQuizById has no order clause: the embedded quiz_questions, and
\* inside each the embedded quiz_answers, come in whatever order the database
\* returns them.
EmbeddedQuestions(quizId) == Orderings(QuestionsOf({quizId}))

EmbeddedAnswers(questionId) == Orderings(AnswersOf({questionId}))

\* quiz_answers.find(a => a.is_correct) on one returned order: the id of the first
\* flagged answer, NullId when none is flagged
FindCorrect(answers) ==
    LET flagged == {i \in 1..Len(answers) : answers[i].is_correct}
    IN  IF flagged = {} THEN NullId ELSE answers[Min(flagged)].id

\* the answers find() can yield for the question: any one of its flagged answers
CorrectAnswerChoices(questionId) ==
    {FindCorrect(answers) : answers \in EmbeddedAnswers(questionId)}

\* The outcomes of the fetch: for each question of the quiz, the answer that
\* find(a => a.is_correct) returns.
FetchOutcomes(quizId) ==
    LET qs == Ids(QuestionsOf({quizId}))
    IN  {f \in [qs -> Ids(quiz_answers) \cup {NullId}] :
            \A x \in qs : f[x] \in CorrectAnswerChoices(x)}

\* mutant of FindUserAnswer: the last matching entry instead of the first
FindUserAnswerLast(answers, questionId) ==
    LET I == {i \in 1..Len(answers) : answers[i].questionId = questionId}
    IN  IF I = {} THEN 0 ELSE Max(I)

\* answers.find(a => a.questionId === question.id): the index of the first
\* matching entry, 0 when find returns undefined
FindUserAnswer(answers, questionId) ==
    LET I == {i \in 1..Len(answers) : answers[i].questionId = questionId}
    IN  IF I = {} THEN 0 ELSE Min(I)

\* the body of quiz.quiz_questions.forEach: whether the question is counted correct
QuestionIsCorrect(answers, questionId, correctAnswer) ==
    LET userAnswer == FindUserAnswer(answers, questionId)
    IN  /\ userAnswer /= 0
        /\ correctAnswer /= NullId
        /\ answers[userAnswer].answerId = correctAnswer

\* mutant of CountCorrect: a correct question adds its points instead of 1
RECURSIVE CountCorrectByPoints(_, _, _)
CountCorrectByPoints(answers, questionIds, correctOf) ==
    IF questionIds = {} THEN 0
    ELSE LET x == CHOOSE y \in questionIds : TRUE
             points == (CHOOSE q \in quiz_questions : q.id = x).points
         IN  (IF QuestionIsCorrect(answers, x, correctOf[x]) THEN points ELSE 0)
             + CountCorrectByPoints(answers, questionIds \ {x}, correctOf)

RECURSIVE CountCorrect(_, _, _)
CountCorrect(answers, questionIds, correctOf) ==
    IF questionIds = {} THEN 0
    ELSE LET x == CHOOSE y \in questionIds : TRUE
         IN  (IF QuestionIsCorrect(answers, x, correctOf[x]) THEN 1 ELSE 0)
             + CountCorrect(answers, questionIds \ {x}, correctOf)

\* score = totalQuestions > 0 ? (correctAnswers / totalQuestions) * 100 : 0, kept as
\* the exact fraction num/den (the double the code computes compares with every
\* integer passing score as the exact fraction does, for every quiz of up to 40
\* questions).
ComputeScore(correctAnswers, totalQuestions) ==
    IF totalQuestions > 0
    THEN [num |-> correctAnswers * 100, den |-> totalQuestions]
    ELSE [num |-> 0, den |-> 1]

\* quiz.passing_score || 70: a passing score of 0 is falsy
PassingScoreOrDefault(passing_score) ==
    IF passing_score = 0 THEN DefaultPassingScore ELSE passing_score

\* passed = score >= (quiz.passing_score || 70)
ComputePassed(score, passing_score) ==
    score.num >= PassingScoreOrDefault(passing_score) * score.den

\* mutant of PreviousAttempts: the query without .eq('user_id', userId)
PreviousAttemptsOfQuiz(userId, quizId, ok) ==
    LET mine == {r \in user_quiz_results : r.quiz_id = quizId}
    IN  IF ~ok THEN [isNull |-> TRUE, data |-> << >>]
        ELSE IF mine = {} THEN [isNull |-> FALSE, data |-> << >>]
        ELSE [isNull |-> FALSE, data |-> << Max({r.attempt_number : r \in mine}) >>]

\* the previous-attempts query: order by attempt_number descending, limit 1;
\* data is null when the query fails
PreviousAttempts(userId, quizId, ok) ==
    LET mine == {r \in user_quiz_results : r.user_id = userId /\ r.quiz_id = quizId}
    IN  IF ~ok THEN [isNull |-> TRUE, data |-> << >>]
        ELSE IF mine = {} THEN [isNull |-> FALSE, data |-> << >>]
        ELSE [isNull |-> FALSE, data |-> << Max({r.attempt_number : r \in mine}) >>]

\* attemptNumber = previousAttempts && previousAttempts.length > 0
\*                   ? previousAttempts[0].attempt_number + 1 : 1
\* (only data is read from the query's result, never its error)
AttemptNumber(previousAttempts) ==
    IF ~previousAttempts.isNull /\ Len(previousAttempts.data) > 0
    THEN previousAttempts.data[1] + 1
    ELSE 1

-----------------------------------------------------------------------------
(* Request slots. *)

SlotFree(p) ==
    submit[p] = Idle /\ upload[p] = Idle /\ update[p] = Idle /\ create[p] = Idle

InFlightSubmits == {p \in Procs : submit[p] /= Idle}

\* Messages of the responses.
NoMessage == ""
QuizNotFound == "Quiz non trouve"
NoFileProvided == "Aucun fichier fourni"
FileTypeNotAllowed == "Type de fichier non autorise"
InvalidData == "Donnees invalides"
FormationNotFound == "Formation non trouvee"
FormationsFetched == "Formations recuperees avec succes"
FormationFetched == "Formation recuperee avec succes"
QuizFetched == "Quiz recupere avec succes"
ProgressFetched == "Progression recuperee avec succes"
FormationProgressFetched == "Progression de la formation recuperee avec succes"
QuizResultsFetched == "Resultats du quiz recuperes avec succes"
\* the text of the error the persistence or storage service reported
PersistenceError == "error.message"

NoResponse == [status |-> 0, message |-> NoMessage, errors |-> {}, data |-> {}]

\* res.status(status).json({ success, message }): message is the text of the error
\* answered, NoMessage on success.
Respond(p, status, message) ==
    response' = [response EXCEPT ![p] =
                    [status |-> status, message |-> message, errors |-> {}, data |-> {}]]

\* the answer to a ZodError: status 400 with errors: error.errors, here the keys of
\* the body that violate the schema
RespondInvalid(p, violations) ==
    response' = [response EXCEPT ![p] =
                    [status |-> 400, message |-> InvalidData, errors |-> violations,
                     data |-> {}]]

\* res.json({ success: true, data, message }): data is kept as the ids of the rows
\* returned
RespondData(p, message, rows) ==
    response' = [response EXCEPT ![p] =
                    [status |-> 200, message |-> message, errors |-> {},
                     data |-> Ids(rows)]]

-----------------------------------------------------------------------------
(* POST /quiz/:quizId/submit: FormationController.submitQuiz calling          *)
(* FormationService.submitQuizResult, one step per await.                    *)

\* First await: getQuizById, then the synchronous scoring up to the next await.
\* correctOf is the outcome of the fetch (which flagged answer find() meets first).
SubmitFetchQuiz(p, userId, quizId, answers, ok, correctOf) ==
    /\ SlotFree(p)
    /\ (nextId.result - 1) + Cardinality(InFlightSubmits) < MaxResults
    /\ LET quiz == GetQuizById(quizId, ok)
       IN  IF quiz = {}
           THEN \* throw new Error('Quiz non trouve'): caught by the controller
                /\ Respond(p, 500, QuizNotFound)
                /\ UNCHANGED <<submit, raced>>
           ELSE LET q == CHOOSE x \in quiz : TRUE
                    questionIds == Ids(QuestionsOf({quizId}))
                    totalQuestions == Cardinality(questionIds)
                    correctAnswers == CountCorrect(answers, questionIds, correctOf)
                    score == ComputeScore(correctAnswers, totalQuestions)
                IN  /\ submit' = [submit EXCEPT ![p] =
                            [pc |-> "attempts", userId |-> userId, quizId |-> quizId,
                             answers |-> answers, score |-> score,
                             totalQuestions |-> totalQuestions,
                             correctAnswers |-> correctAnswers,
                             passed |-> ComputePassed(score, q.passing_score)]]
                    /\ raced' = IF \E o \in InFlightSubmits :
                                      submit[o].userId = userId /\ submit[o].quizId = quizId
                                THEN raced \cup {<<userId, quizId>>}
                                ELSE raced
                    /\ UNCHANGED response
    /\ UNCHANGED <<dbVars, now, upload, update, create, deleted>>

\* Second await: the previous-attempts query.
SubmitReadAttempts(p, ok) ==
    /\ submit[p] /= Idle
    /\ submit[p].pc = "attempts"
    /\ submit' = [submit EXCEPT ![p] =
            [pc |-> "insert", userId |-> submit[p].userId, quizId |-> submit[p].quizId,
             answers |-> submit[p].answers, score |-> submit[p].score,
             totalQuestions |-> submit[p].totalQuestions,
             correctAnswers |-> submit[p].correctAnswers,
             passed |-> submit[p].passed,
             attemptNumber |->
                 AttemptNumber(PreviousAttempts(submit[p].userId, submit[p].quizId, ok))]]
    /\ UNCHANGED <<dbVars, now, upload, update, create, response, raced, deleted>>

\* The row the insert of submitQuizResult sends.
ResultRow(id, s) ==
    [id |-> id, user_id |-> s.userId, quiz_id |-> s.quizId, score |-> s.score,
     total_questions |-> s.totalQuestions, correct_answers |-> s.correctAnswers,
     passed |-> s.passed, attempt_number |-> s.attemptNumber,
     answers_data |-> s.answers]

\* mutant of ResultInsertAccepted: a unique constraint on
\* (user_id, quiz_id, attempt_number)
ResultInsertAcceptedUnique(row) ==
    /\ row.quiz_id \in Ids(quizzes)
    /\ ~\E r \in user_quiz_results :
          /\ r.user_id = row.user_id
          /\ r.quiz_id = row.quiz_id
          /\ r.attempt_number = row.attempt_number

\* mutant of ResultInsertAccepted: the insert refused once the user has
\* max_attempts rows for the quiz
ResultInsertAcceptedWithinMax(row) ==
    /\ row.quiz_id \in Ids(quizzes)
    /\ \A q \in quizzes :
          q.id = row.quiz_id =>
             Cardinality({r \in user_quiz_results :
                             r.user_id = row.user_id /\ r.quiz_id = row.quiz_id})
                < q.max_attempts

\* What table user_quiz_results accepts: quiz_id must reference a stored quiz; the
\* table has no unique constraint besides its primary key.
ResultInsertAccepted(row) ==
    row.quiz_id \in Ids(quizzes)

\* mutant of InsertResult: an upsert on (user_id, quiz_id) replacing the prior row
InsertResultUpsert(row) ==
    {r \in user_quiz_results : ~(r.user_id = row.user_id /\ r.quiz_id = row.quiz_id)}
        \cup {row}

\* The table after the insert.
InsertResult(row) ==
    user_quiz_results \cup {row}

\* Third await: the insert; an error is thrown and answered 500.
SubmitInsert(p, ok) ==
    /\ submit[p] /= Idle
    /\ submit[p].pc = "insert"
    /\ LET row == ResultRow(nextId.result, submit[p])
       IN  IF ok /\ ResultInsertAccepted(row)
           THEN /\ user_quiz_results' = InsertResult(row)
                /\ nextId' = [nextId EXCEPT !.result = @ + 1]
                /\ Respond(p, 200, NoMessage)
           ELSE /\ UNCHANGED <<user_quiz_results, nextId>>
                /\ Respond(p, 500, PersistenceError)
    /\ submit' = [submit EXCEPT ![p] = Idle]
    /\ UNCHANGED <<formations, quizzes, quiz_questions, quiz_answers, user_progress,
                   schema, storage, now, upload, update, create, raced, deleted>>

-----------------------------------------------------------------------------
(* DELETE /formations/:id: FormationController.deleteFormation calling        *)
(* FormationService.deleteFormation; the cascades are the schema's.          *)

\* The rows each table keeps when the formations with ids fids are deleted.
QuizzesAfterDelete(fids) == quizzes \ QuizzesOf(fids)
QuestionsAfterDelete(fids) == quiz_questions \ QuestionsOf(Ids(QuizzesOf(fids)))
\* mutant of AnswersAfterDelete: quiz_answers.question_id without ON DELETE CASCADE
AnswersKeptOnDelete(fids) == quiz_answers

AnswersAfterDelete(fids) ==
    quiz_answers \ AnswersOf(Ids(QuestionsOf(Ids(QuizzesOf(fids)))))
ResultsAfterDelete(fids) == user_quiz_results \ ResultsOf(Ids(QuizzesOf(fids)))
\* user_progress.formation_id REFERENCES formations(id) ON DELETE CASCADE
ProgressAfterDelete(fids) == {r \in user_progress : r.formation_id \notin fids}

DeleteFormation(p, formationId, ok) ==
    /\ SlotFree(p)
    /\ IF ok
       THEN /\ formations' = {f \in formations : f.id /= formationId}
            /\ quizzes' = QuizzesAfterDelete({formationId})
            /\ quiz_questions' = QuestionsAfterDelete({formationId})
            /\ quiz_answers' = AnswersAfterDelete({formationId})
            /\ user_quiz_results' = ResultsAfterDelete({formationId})
            /\ user_progress' = ProgressAfterDelete({formationId})
            /\ deleted' = deleted \cup {formationId}
            /\ Respond(p, 200, NoMessage)
       ELSE /\ UNCHANGED <<formations, quizzes, quiz_questions, quiz_answers,
                           user_quiz_results, user_progress, deleted>>
            /\ Respond(p, 500, PersistenceError)
    /\ UNCHANGED <<schema, storage, nextId, now, submit, upload, update, create, raced>>

-----------------------------------------------------------------------------
(* Optional values of a request body or of an update: {} when the key is      *)
(* absent (undefined), {v} when it is present with value v.                   *)

Opt(S) == {{}} \cup {{v} : v \in S}

TheOnly(opt) == CHOOSE v \in opt : TRUE

\* the JavaScript expression  value || default  on an optional number: absent and
\* 0 are both falsy
OrElse(opt, default) ==
    IF opt = {} \/ opt = {0} THEN default ELSE TheOnly(opt)

-----------------------------------------------------------------------------
(* POST /formations/:id/quiz: FormationController.createQuiz calling          *)
(* FormationService.createQuiz, addQuizQuestions, addQuizAnswers and          *)
(* getQuizById, one step per await.                                          *)

QuestionTypes == {"multiple_choice", "true_false", "text"}

\* createQuizSchema accepts the body (texts are left out of the model)
ValidQuizBody(body) ==
    /\ body.passing_score /= {} =>
          TheOnly(body.passing_score) >= 0 /\ TheOnly(body.passing_score) <= 100
    /\ body.max_attempts /= {} => TheOnly(body.max_attempts) >= 1
    /\ Len(body.questions) >= 1
    /\ \A i \in 1..Len(body.questions) :
          LET q == body.questions[i]
          IN  /\ q.question_type /= {} => TheOnly(q.question_type) \in QuestionTypes
              /\ q.points /= {} => TheOnly(q.points) >= 1
              /\ q.order_index /= {} => TheOnly(q.order_index) >= 0
              /\ Len(q.answers) >= 1
              /\ \A j \in 1..Len(q.answers) :
                    q.answers[j].order_index /= {} =>
                        TheOnly(q.answers[j].order_index) >= 0

\* the keys of the body createQuizSchema reports
QuizViolations(body) ==
    {k \in {"passing_score"} :
        body.passing_score /= {} /\
            ~(TheOnly(body.passing_score) >= 0 /\ TheOnly(body.passing_score) <= 100)}
    \cup {k \in {"max_attempts"} :
        body.max_attempts /= {} /\ ~(TheOnly(body.max_attempts) >= 1)}
    \cup {k \in {"questions"} :
        ~ValidQuizBody([body EXCEPT !.passing_score = {}, !.max_attempts = {}])}

\* createQuizSchema.parse: the defaults of the schema fill the absent keys
ParseQuizBody(body) ==
    [passing_score |-> IF body.passing_score = {} THEN {DefaultPassingScore}
                       ELSE body.passing_score,
     max_attempts |-> IF body.max_attempts = {} THEN {DefaultMaxAttempts}
                      ELSE body.max_attempts,
     questions |-> [i \in 1..Len(body.questions) |->
                        [question_type |->
                             IF body.questions[i].question_type = {}
                             THEN {"multiple_choice"}
                             ELSE body.questions[i].question_type,
                         points |-> IF body.questions[i].points = {} THEN {1}
                                    ELSE body.questions[i].points,
                         order_index |-> body.questions[i].order_index,
                         answers |-> body.questions[i].answers]]]

\* the row FormationService.createQuiz inserts
QuizRow(id, formationId, quizData) ==
    [id |-> id, formation_id |-> formationId,
     passing_score |-> OrElse(quizData.passing_score, DefaultPassingScore),
     max_attempts |-> OrElse(quizData.max_attempts, DefaultMaxAttempts)]

\* questionsToInsert of addQuizQuestions, with the ids the database generates;
\* index is the position in the array the service received
QuestionsToInsert(quizId, questions, firstId) ==
    [i \in 1..Len(questions) |->
        [id |-> firstId + i - 1, quiz_id |-> quizId,
         question_type |-> IF questions[i].question_type \in {{}, {""}}
                           THEN "multiple_choice"
                           ELSE TheOnly(questions[i].question_type),
         points |-> OrElse(questions[i].points, 1),
         order_index |-> OrElse(questions[i].order_index, i - 1)]]

\* answersToInsert of addQuizAnswers
AnswersToInsert(questionId, answers, firstId) ==
    [j \in 1..Len(answers) |->
        [id |-> firstId + j - 1, question_id |-> questionId,
         is_correct |-> answers[j].is_correct,
         order_index |-> OrElse(answers[j].order_index, j - 1)]]

Range(s) == {s[i] : i \in 1..Len(s)}

\* mutant of ForeignKeyHolds: the column declared without REFERENCES
ForeignKeyUnchecked(id, rows) == TRUE

\* REFERENCES rows(id): an insert is accepted only when the referenced row is stored
ForeignKeyHolds(id, rows) == id \in Ids(rows)

\* First await: FormationService.createQuiz.
CreateQuizInsert(p, formationId, body, ok) ==
    /\ SlotFree(p)
    /\ nextId.quiz - 1 < MaxQuizzes
    /\ IF ~ValidQuizBody(body)
       THEN \* ZodError
            /\ RespondInvalid(p, QuizViolations(body))
            /\ UNCHANGED <<quizzes, nextId, create>>
       ELSE IF ok /\ ForeignKeyHolds(formationId, formations)
       THEN /\ quizzes' = quizzes \cup
                  {QuizRow(nextId.quiz, formationId, ParseQuizBody(body))}
            /\ nextId' = [nextId EXCEPT !.quiz = @ + 1]
            /\ create' = [create EXCEPT ![p] =
                  [pc |-> "question", quizId |-> nextId.quiz, questionId |-> NullId,
                   questions |-> ParseQuizBody(body).questions]]
            /\ UNCHANGED response
       ELSE /\ Respond(p, 500, PersistenceError)
            /\ UNCHANGED <<quizzes, nextId, create>>
    /\ UNCHANGED <<formations, quiz_questions, quiz_answers, user_quiz_results, user_progress,
                   schema,
                   storage, now, submit, upload, update, raced, deleted>>

\* mutant of QuizzesAfterCatch: the catch block deletes the quiz it had inserted
QuizzesRolledBack(quizId) == {q \in quizzes : q.id /= quizId}

\* The quizzes stored once the controller's catch block has answered a failure of
\* the loop: the block only logs and responds, the quiz row stays.
QuizzesAfterCatch(quizId) == quizzes

\* In the loop: addQuizQuestions(quiz.id, [questionData]) for the next question.
CreateQuizAddQuestion(p, ok) ==
    /\ create[p] /= Idle
    /\ create[p].pc = "question"
    /\ LET rows == QuestionsToInsert(create[p].quizId,
                                     << Head(create[p].questions) >>, nextId.question)
       IN  IF ok /\ ForeignKeyHolds(create[p].quizId, quizzes)
           THEN /\ quiz_questions' = quiz_questions \cup Range(rows)
                /\ nextId' = [nextId EXCEPT !.question = @ + Len(rows)]
                /\ create' = [create EXCEPT ![p] =
                      [pc |-> "answers", quizId |-> create[p].quizId,
                       questionId |-> rows[1].id,
                       questions |-> create[p].questions]]
                /\ UNCHANGED <<response, quizzes>>
           ELSE /\ Respond(p, 500, PersistenceError)
                /\ create' = [create EXCEPT ![p] = Idle]
                /\ quizzes' = QuizzesAfterCatch(create[p].quizId)
                /\ UNCHANGED <<quiz_questions, nextId>>
    /\ UNCHANGED <<formations, quiz_answers, user_quiz_results, user_progress,
                   schema,
                   storage, now, submit, upload, update, raced, deleted>>

\* In the loop: addQuizAnswers(question.id, questionData.answers).
CreateQuizAddAnswers(p, ok) ==
    /\ create[p] /= Idle
    /\ create[p].pc = "answers"
    /\ LET rows == AnswersToInsert(create[p].questionId,
                                   Head(create[p].questions).answers, nextId.answer)
           rest == Tail(create[p].questions)
       IN  IF ok /\ ForeignKeyHolds(create[p].questionId, quiz_questions)
           THEN /\ quiz_answers' = quiz_answers \cup Range(rows)
                /\ nextId' = [nextId EXCEPT !.answer = @ + Len(rows)]
                /\ create' = [create EXCEPT ![p] =
                      [pc |-> IF rest = << >> THEN "fetch" ELSE "question",
                       quizId |-> create[p].quizId, questionId |-> NullId,
                       questions |-> rest]]
                /\ UNCHANGED <<response, quizzes>>
           ELSE /\ Respond(p, 500, PersistenceError)
                /\ create' = [create EXCEPT ![p] = Idle]
                /\ quizzes' = QuizzesAfterCatch(create[p].quizId)
                /\ UNCHANGED <<quiz_answers, nextId>>
    /\ UNCHANGED <<formations, quiz_questions, user_quiz_results, user_progress,
                   schema,
                   storage, now, submit, upload, update, raced, deleted>>

\* Last await: getQuizById(quiz.id); its null is answered 201 with data null.
CreateQuizFetch(p, ok) ==
    /\ create[p] /= Idle
    /\ create[p].pc = "fetch"
    /\ Respond(p, 201, NoMessage)
    /\ create' = [create EXCEPT ![p] = Idle]
    /\ UNCHANGED <<dbVars, now, submit, upload, update, raced, deleted>>

-----------------------------------------------------------------------------
(* PUT /formations/:id: FormationController.updateFormation calling           *)
(* FormationService.updateFormation.                                          *)

FormationTypes == {"video", "ppt", "pdf", "article"}

FormationStatuses == {"draft", "active", "inactive"}

\* the keys of createFormationSchema
SchemaKeys == {"name", "type", "description", "duration_minutes", "status"}

\* updateFormationSchema accepts the body: every key is optional, a present key
\* must satisfy the rule of createFormationSchema
ValidUpdateBody(body) ==
    /\ body.name /= {} => TheOnly(body.name) /= ""
    /\ body.type /= {} => TheOnly(body.type) \in FormationTypes
    /\ body.duration_minutes /= {} => TheOnly(body.duration_minutes) >= 0
    /\ body.status /= {} => TheOnly(body.status) \in FormationStatuses

\* the rule of createFormationSchema for the value of key k
FormationKeyRule(k, value) ==
    CASE k = "name" -> value /= ""
      [] k = "type" -> value \in FormationTypes
      [] k = "duration_minutes" -> value >= 0
      [] k = "status" -> value \in FormationStatuses
      [] OTHER -> TRUE

\* the keys of the body updateFormationSchema reports
UpdateViolations(body) ==
    {k \in SchemaKeys : body[k] /= {} /\ ~FormationKeyRule(k, TheOnly(body[k]))}

\* mutant of ParseUpdateBody: the creation defaults fill the absent keys
ParseUpdateBodyWithDefaults(body) ==
    [name |-> body.name, type |-> body.type, description |-> body.description,
     duration_minutes |-> IF body.duration_minutes = {} THEN {0}
                          ELSE body.duration_minutes,
     status |-> IF body.status = {} THEN {"draft"} ELSE body.status,
     file_url |-> {}, file_name |-> {}, file_size |-> {}]

\* updateFormationSchema.parse: createFormationSchema.partial() makes every key
\* optional, an absent key stays absent (its creation default is not applied) and
\* a key the schema does not list is dropped
ParseUpdateBody(body) ==
    [name |-> body.name, type |-> body.type, description |-> body.description,
     duration_minutes |-> body.duration_minutes, status |-> body.status,
     file_url |-> {}, file_name |-> {}, file_size |-> {}]

\* column := value when the key is present in the update
Patch(old, opt) == IF opt = {} THEN old ELSE TheOnly(opt)

\* the row after  update({ ...updateData, updated_at })
ApplyUpdate(f, updateData, timestamp) ==
    [f EXCEPT !.name = Patch(@, updateData.name),
              !.type = Patch(@, updateData.type),
              !.description = Patch(@, updateData.description),
              !.duration_minutes = Patch(@, updateData.duration_minutes),
              !.status = Patch(@, updateData.status),
              !.file_url = Patch(@, updateData.file_url),
              !.file_name = Patch(@, updateData.file_name),
              !.file_size = Patch(@, updateData.file_size),
              !.updated_at = timestamp]

\* FormationService.updateFormation: table formations after the update
UpdateFormationRows(formationId, updateData, timestamp) ==
    {IF f.id = formationId THEN ApplyUpdate(f, updateData, timestamp) ELSE f :
        f \in formations}

\* .single() reports an error when the update returned no row
UpdateSucceeds(formationId, ok) == ok /\ formationId \in Ids(formations)

\* The updated_at the row gets: the timestamp the service sent or, where the trigger
\* update_formations_updated_at is installed, NOW() of the database at the update.
StoredTimestamp(timestamp, trigger) == IF trigger THEN now ELSE timestamp

\* The handler up to its await: the body is parsed, the service reads the clock
\* for updated_at and sends the update.
UpdateFormation(p, formationId, body) ==
    /\ SlotFree(p)
    /\ IF ~ValidUpdateBody(body)
       THEN \* ZodError
            /\ RespondInvalid(p, UpdateViolations(body))
            /\ UNCHANGED update
       ELSE /\ update' = [update EXCEPT ![p] =
                  [pc |-> "apply", formationId |-> formationId, body |-> body,
                   timestamp |-> now]]
            /\ UNCHANGED response
    /\ UNCHANGED <<dbVars, now, submit, upload, create, raced, deleted>>

\* The await: the persistence service applies the update, the handler answers.
UpdateFormationApply(p, ok, trigger) ==
    /\ update[p] /= Idle
    /\ IF UpdateSucceeds(update[p].formationId, ok)
       THEN /\ formations' = UpdateFormationRows(update[p].formationId,
                                 ParseUpdateBody(update[p].body),
                                 StoredTimestamp(update[p].timestamp, trigger))
            /\ Respond(p, 200, NoMessage)
       ELSE /\ Respond(p, 500, PersistenceError)
            /\ UNCHANGED formations
    /\ update' = [update EXCEPT ![p] = Idle]
    /\ UNCHANGED <<quizzes, quiz_questions, quiz_answers, user_quiz_results,
                   user_progress, schema, storage,
                   nextId, now, submit, upload, create, raced, deleted>>

\* the clock advances
Tick ==
    /\ now < MaxClock
    /\ now' = now + 1
    /\ UNCHANGED <<dbVars, submit, upload, update, create, response, raced, deleted>>

-----------------------------------------------------------------------------
(* POST /formations/:id/upload: the multer middleware uploadFile, then        *)
(* FormationController.uploadFormationFile calling                           *)
(* FormationService.uploadFormationFile and updateFormation.                 *)

\* allowedTypes of the fileFilter
AllowedTypes ==
    {"application/pdf",
     "application/vnd.ms-powerpoint",
     "application/vnd.openxmlformats-officedocument.presentationml.presentation",
     "video/mp4",
     "video/x-msvideo",
     "video/quicktime",
     "video/x-ms-wmv"}

\* mutant of FileFilter: every type is accepted
FileFilterAcceptsAll(mimetype) == TRUE

\* fileFilter: cb(null, true) for a listed type, cb(new Error(...)) otherwise
FileFilter(mimetype) == mimetype \in AllowedTypes

\* characters fileName.replace(/[^a-zA-Z0-9.-]/g, '_') keeps; a file name is a
\* sequence of characters
SafeChars == {"a", "b", "p", "d", "f", "1", ".", "-"}

SanitizedFileName(fileName) ==
    [i \in 1..Len(fileName) |-> IF fileName[i] \in SafeChars THEN fileName[i] ELSE "_"]

\* formations/${organizationId}/${formationId}/${Date.now()}_${sanitizedFileName}
FilePath(organizationId, formationId, timestamp, fileName) ==
    <<"formations", organizationId, formationId, timestamp, SanitizedFileName(fileName)>>

StoredPaths == {o.path : o \in storage}

\* storage upload with upsert: false: an object already stored at the path is an
\* error
StorageUploadSucceeds(path, ok) == ok /\ path \notin StoredPaths

\* The request passes the file filter and the handler runs to the end of its first
\* await, the storage upload, and on to sending the update of the formation.  file
\* is {} when the request carries no file.
UploadRequest(p, formationId, organizationId, file, ok) ==
    /\ SlotFree(p)
    /\ Cardinality(storage) < MaxUploads
    /\ IF file /= {} /\ ~FileFilter(TheOnly(file).mimetype)
       THEN \* the filter's error ends the request, the handler does not run
            /\ Respond(p, 500, FileTypeNotAllowed)
            /\ UNCHANGED <<storage, upload>>
       ELSE IF file = {}
       THEN /\ Respond(p, 400, NoFileProvided)
            /\ UNCHANGED <<storage, upload>>
       ELSE LET path == FilePath(organizationId, formationId, now,
                                 TheOnly(file).originalname)
            IN  IF StorageUploadSucceeds(path, ok)
                THEN /\ storage' = storage \cup {[path |-> path]}
                     /\ upload' = [upload EXCEPT ![p] =
                           [pc |-> "update", formationId |-> formationId,
                            url |-> path, file |-> TheOnly(file),
                            timestamp |-> now]]
                     /\ UNCHANGED response
                ELSE /\ Respond(p, 500, PersistenceError)
                     /\ UNCHANGED <<storage, upload>>
    /\ UNCHANGED <<formations, quizzes, quiz_questions, quiz_answers, user_quiz_results,
                   user_progress, schema,
                   nextId, now, submit, update, create, raced, deleted>>

\* the update the handler sends once the file is stored
FileUpdate(url, file) ==
    [name |-> {}, type |-> {}, description |-> {}, duration_minutes |-> {},
     status |-> {}, file_url |-> {url}, file_name |-> {file.originalname},
     file_size |-> {file.size}]

\* Second await: updateFormation(id, { file_url, file_name, file_size }), sent when
\* the storage upload returned.
UploadUpdate(p, ok, trigger) ==
    /\ upload[p] /= Idle
    /\ upload[p].pc = "update"
    /\ IF UpdateSucceeds(upload[p].formationId, ok)
       THEN /\ formations' = UpdateFormationRows(upload[p].formationId,
                                 FileUpdate(upload[p].url, upload[p].file),
                                 StoredTimestamp(upload[p].timestamp, trigger))
            /\ Respond(p, 200, NoMessage)
       ELSE /\ Respond(p, 500, PersistenceError)
            /\ UNCHANGED formations
    /\ upload' = [upload EXCEPT ![p] = Idle]
    /\ UNCHANGED <<quizzes, quiz_questions, quiz_answers, user_quiz_results,
                   user_progress, schema, storage,
                   nextId, now, submit, update, create, raced, deleted>>

-----------------------------------------------------------------------------
(* POST /formations/:formationId/progress: FormationController.updateProgress *)
(* calling FormationService.updateUserProgress.                              *)

ProgressStatuses == {"not_started", "in_progress", "completed"}

\* updateProgressSchema accepts the body: both keys are required
ValidProgressBody(body) ==
    /\ body.progress_percentage /= {}
    /\ TheOnly(body.progress_percentage) >= 0
    /\ TheOnly(body.progress_percentage) <= 100
    /\ body.status /= {}
    /\ TheOnly(body.status) \in ProgressStatuses

\* the keys of the body updateProgressSchema reports
ProgressViolations(body) ==
    {k \in {"progress_percentage"} :
        \/ body.progress_percentage = {}
        \/ TheOnly(body.progress_percentage) < 0
        \/ TheOnly(body.progress_percentage) > 100}
    \cup {k \in {"status"} :
        body.status = {} \/ TheOnly(body.status) \notin ProgressStatuses}

\* mutant of ProgressRow: user_id read from the payload, which names user u1
ProgressRowOfPayload(id, userId, formationId, progressData, timestamp) ==
    [id |-> id, user_id |-> "u1", formation_id |-> formationId,
     progress_percentage |-> TheOnly(progressData.progress_percentage),
     status |-> TheOnly(progressData.status),
     last_accessed_at |-> timestamp, updated_at |-> timestamp]

\* the row the upsert of updateUserProgress sends; it carries no id, the database
\* generates one
ProgressRow(id, userId, formationId, progressData, timestamp) ==
    [id |-> id, user_id |-> userId, formation_id |-> formationId,
     progress_percentage |-> TheOnly(progressData.progress_percentage),
     status |-> TheOnly(progressData.status),
     last_accessed_at |-> timestamp, updated_at |-> timestamp]

\* the stored rows that conflict with row on the primary key, the conflict target
\* of an upsert that names no onConflict columns
UpsertConflicts(row) == {r \in user_progress : r.id = row.id}

\* What table user_progress accepts from the upsert: the columns sent must exist,
\* formation_id must reference a stored formation and, where the table has
\* UNIQUE(user_id, formation_id), no other row may hold the pair.
ProgressUpsertAccepted(row) ==
    /\ schema.lastAccessedAt
    /\ ForeignKeyHolds(row.formation_id, formations)
    /\ schema.progressUnique =>
          \A r \in user_progress \ UpsertConflicts(row) :
              ~(r.user_id = row.user_id /\ r.formation_id = row.formation_id)

\* table user_progress after the upsert: the conflicting rows are replaced
UpsertProgress(row) == (user_progress \ UpsertConflicts(row)) \cup {row}

UpdateProgress(p, userId, formationId, body, ok) ==
    /\ SlotFree(p)
    /\ nextId.progress - 1 < MaxProgress
    /\ IF ~ValidProgressBody(body)
       THEN \* ZodError
            /\ RespondInvalid(p, ProgressViolations(body))
            /\ UNCHANGED <<user_progress, nextId>>
       ELSE LET row == ProgressRow(nextId.progress, userId, formationId, body, now)
            IN  IF ok /\ ProgressUpsertAccepted(row)
                THEN /\ user_progress' = UpsertProgress(row)
                     /\ nextId' = [nextId EXCEPT !.progress = @ + 1]
                     /\ Respond(p, 200, NoMessage)
                ELSE /\ Respond(p, 500, PersistenceError)
                     /\ UNCHANGED <<user_progress, nextId>>
    /\ UNCHANGED <<formations, quizzes, quiz_questions, quiz_answers, user_quiz_results,
                   schema, storage, now, submit, upload, update, create, raced,
                   deleted>>

-----------------------------------------------------------------------------
(* POST /formations: FormationController.createFormation calling              *)
(* FormationService.createFormation.                                          *)

\* the keys of the body createFormationSchema reports: name and type are required
CreateViolations(body) ==
    UpdateViolations(body) \cup {k \in {"name", "type"} : body[k] = {}}

\* mutant of ValidCreateBody: the body is not validated
AcceptAnyBody(body) == TRUE

\* createFormationSchema accepts the body
ValidCreateBody(body) == CreateViolations(body) = {}

\* createFormationSchema.parse: the defaults fill duration_minutes and status, a key
\* the schema does not list is dropped
ParseCreateBody(body) ==
    [name |-> body.name, type |-> body.type, description |-> body.description,
     duration_minutes |-> IF body.duration_minutes = {} THEN {0}
                          ELSE body.duration_minutes,
     status |-> IF body.status = {} THEN {"draft"} ELSE body.status]

\* the row FormationService.createFormation inserts; updated_at is the column's
\* DEFAULT NOW()
FormationRow(id, organizationId, formationData, createdBy, timestamp) ==
    [id |-> id, organization_id |-> organizationId,
     name |-> Patch("", formationData.name),
     type |-> Patch("", formationData.type),
     description |-> Patch(NullText, formationData.description),
     duration_minutes |-> OrElse(formationData.duration_minutes, 0),
     status |-> Patch("draft", formationData.status),
     file_url |-> NullPath, file_name |-> NullPath, file_size |-> 0,
     created_by |-> createdBy, updated_at |-> timestamp]

CreateFormation(p, organizationId, userId, body, ok) ==
    /\ SlotFree(p)
    /\ nextId.formation <= MaxFormations
    /\ IF ~ValidCreateBody(body)
       THEN \* ZodError
            /\ RespondInvalid(p, CreateViolations(body))
            /\ UNCHANGED <<formations, nextId>>
       ELSE IF ok
       THEN /\ formations' = formations \cup
                  {FormationRow(nextId.formation, organizationId,
                                ParseCreateBody(body), userId, now)}
            /\ nextId' = [nextId EXCEPT !.formation = @ + 1]
            /\ Respond(p, 201, NoMessage)
       ELSE /\ Respond(p, 500, PersistenceError)
            /\ UNCHANGED <<formations, nextId>>
    /\ UNCHANGED <<quizzes, quiz_questions, quiz_answers, user_quiz_results,
                   user_progress, schema, storage, now, submit, upload, update, create,
                   raced, deleted>>

-----------------------------------------------------------------------------
(* POST /quiz/:quizId/submit: the validation of FormationController.submitQuiz *)
(* ahead of FormationService.submitQuizResult.                                *)

\* z.string().uuid(): ids are positive integers, anything else is malformed
IsUuid(id) == id > NullId

\* the keys of the body submitQuizSchema reports; answers is required, answerId is
\* optional (NullId when absent)
SubmitViolations(body) ==
    {k \in {"answers"} :
        \/ body.answers = {}
        \/ \E i \in 1..Len(TheOnly(body.answers)) :
              \/ ~IsUuid(TheOnly(body.answers)[i].questionId)
              \/ /\ TheOnly(body.answers)[i].answerId /= NullId
                 /\ ~IsUuid(TheOnly(body.answers)[i].answerId)}
    \cup {k \in {"timeSpent"} : body.timeSpent /= {} /\ TheOnly(body.timeSpent) < 0}

\* submitQuizSchema accepts the body
ValidSubmitBody(body) == SubmitViolations(body) = {}

\* the handler: parse, then submitQuizResult up to the end of its first await
SubmitQuiz(p, userId, quizId, body, ok, correctOf) ==
    IF ~ValidSubmitBody(body)
    THEN \* ZodError
         /\ SlotFree(p)
         /\ RespondInvalid(p, SubmitViolations(body))
         /\ UNCHANGED <<dbVars, now, submit, upload, update, create, raced, deleted>>
    ELSE SubmitFetchQuiz(p, userId, quizId, TheOnly(body.answers), ok, correctOf)

-----------------------------------------------------------------------------
(* The read endpoints: each is one query, answered in one step.              *)

\* mutant of FormationById: the select without .eq('id', formationId)
FormationByIdUnfiltered(formationId, ok) ==
    IF ok THEN formations ELSE {}

\* FormationService.getFormationById: .single() reports an error when no row has
\* the id (an id that is no uuid included) or the query fails; either way the
\* service returns null, here the empty set
FormationById(formationId, ok) ==
    IF ok THEN {f \in formations : f.id = formationId} ELSE {}

\* GET /:id
GetFormationById(p, formationId, ok) ==
    /\ SlotFree(p)
    /\ LET formation == FormationById(formationId, ok)
       IN  IF formation = {}
           THEN Respond(p, 404, FormationNotFound)
           ELSE RespondData(p, FormationFetched, formation)
    /\ UNCHANGED <<dbVars, now, submit, upload, update, create, raced, deleted>>

\* GET /quiz/:quizId
GetQuiz(p, quizId, ok) ==
    /\ SlotFree(p)
    /\ LET quiz == GetQuizById(quizId, ok)
       IN  IF quiz = {}
           THEN Respond(p, 404, QuizNotFound)
           ELSE RespondData(p, QuizFetched, quiz)
    /\ UNCHANGED <<dbVars, now, submit, upload, update, create, raced, deleted>>

\* FormationService.getFormations: .eq('organization_id', organizationId) and, when
\* status is given, .eq('status', status)
FormationsOf(organizationId, status) ==
    {f \in formations : /\ f.organization_id = organizationId
                        /\ status /= {} => f.status = TheOnly(status)}

\* GET /
GetFormations(p, organizationId, status, ok) ==
    /\ SlotFree(p)
    /\ IF ok
       THEN RespondData(p, FormationsFetched, FormationsOf(organizationId, status))
       ELSE Respond(p, 500, PersistenceError)
    /\ UNCHANGED <<dbVars, now, submit, upload, update, create, raced, deleted>>

\* FormationService.getUserProgress: .eq('user_id', userId); the filter on the
\* embedded formation.organization_id narrows the embedded formation only, every
\* row of the user is returned
UserProgressOf(userId, organizationId) ==
    {r \in user_progress : r.user_id = userId}

\* GET /progress
GetUserProgress(p, userId, organizationId, ok) ==
    /\ SlotFree(p)
    /\ IF ok
       THEN RespondData(p, ProgressFetched, UserProgressOf(userId, organizationId))
       ELSE Respond(p, 500, PersistenceError)
    /\ UNCHANGED <<dbVars, now, submit, upload, update, create, raced, deleted>>

\* GET /:formationId/progress
GetFormationProgress(p, formationId, ok) ==
    /\ SlotFree(p)
    /\ IF ok
       THEN RespondData(p, FormationProgressFetched,
                        {r \in user_progress : r.formation_id = formationId})
       ELSE Respond(p, 500, PersistenceError)
    /\ UNCHANGED <<dbVars, now, submit, upload, update, create, raced, deleted>>

\* GET /quiz/:quizId/results
GetQuizResults(p, quizId, ok) ==
    /\ SlotFree(p)
    /\ IF ok
       THEN RespondData(p, QuizResultsFetched, ResultsOf({quizId}))
       ELSE Respond(p, 500, PersistenceError)
    /\ UNCHANGED <<dbVars, now, submit, upload, update, create, raced, deleted>>

-----------------------------------------------------------------------------
(* The router of formation.routes.ts: authenticateToken on every request,     *)
(* then the first registered route whose method and path match, its           *)
(* checkPermissions when it has one, then its handler.                        *)

AdminRoles == {"admin", "owner"}

\* mutant of Route: the route registered without checkPermissions
RouteUnchecked(method, pattern, permissions, handler) ==
    [method |-> method, pattern |-> pattern, permissions |-> {}, handler |-> handler]

Route(method, pattern, permissions, handler) ==
    [method |-> method, pattern |-> pattern, permissions |-> permissions,
     handler |-> handler]

\* The routes in the order they are registered; permissions is the allow-list of
\* the route's checkPermissions, none when the route has no role check.
Routes ==
    << Route("POST", << >>, {AdminRoles}, "createFormation"),
       Route("GET", << >>, {}, "getFormations"),
       Route("GET", <<":id">>, {}, "getFormationById"),
       Route("PUT", <<":id">>, {AdminRoles}, "updateFormation"),
       Route("DELETE", <<":id">>, {AdminRoles}, "deleteFormation"),
       Route("POST", <<":id", "upload">>, {AdminRoles}, "uploadFormationFile"),
       Route("POST", <<":id", "quiz">>, {AdminRoles}, "createQuiz"),
       Route("GET", <<"quiz", ":quizId">>, {}, "getQuiz"),
       Route("POST", <<"quiz", ":quizId", "submit">>, {}, "submitQuiz"),
       Route("GET", <<"quiz", ":quizId", "results">>, {AdminRoles}, "getQuizResults"),
       Route("POST", <<":formationId", "progress">>, {}, "updateProgress"),
       Route("GET", <<"progress">>, {}, "getUserProgress"),
       Route("GET", <<":formationId", "progress">>, {AdminRoles}, "getFormationProgress") >>

\* a pattern segment that starts with a colon matches any path segment
IsParam(segment) == segment \in {":id", ":quizId", ":formationId"}

Matches(route, method, path) ==
    /\ route.method = method
    /\ Len(route.pattern) = Len(path)
    /\ \A i \in 1..Len(path) : IsParam(route.pattern[i]) \/ route.pattern[i] = path[i]

\* The index of the route a request is dispatched to: the first that matches in
\* registration order, 0 when none does.
Dispatch(method, path) ==
    LET matching == {i \in 1..Len(Routes) : Matches(Routes[i], method, path)}
    IN  IF matching = {} THEN 0 ELSE Min(matching)

\* The id a path segment passes to a query on a uuid column: the row id it names,
\* NullId (the id of no row) for a segment that is no uuid.
UuidOf(segment) ==
    CASE segment = "1" -> 1
      [] segment = "2" -> 2
      [] OTHER -> NullId

\* req.params of the matched route: the value of its parameter segment
ParamOf(route, path) ==
    LET at == {i \in 1..Len(path) : IsParam(route.pattern[i])}
    IN  IF at = {} THEN NullId ELSE UuidOf(path[Min(at)])

Unauthorized == "Unauthorized"
Forbidden == "Forbidden"
NoRoute == "Cannot route"

\* authenticateToken lets the request through and sets req.user
Authenticated(caller) == caller.authenticated

\* checkPermissions(roles) lets the request through
Permitted(route, caller) ==
    \A roles \in route.permissions : caller.role \in roles

\* One request to the router, up to the first await of its handler.
Request(p, req) ==
    /\ SlotFree(p)
    /\ LET caller == req.caller
           index == Dispatch(req.method, req.path)
       IN  IF ~Authenticated(caller)
           THEN /\ Respond(p, 401, Unauthorized)
                /\ UNCHANGED <<dbVars, now, submit, upload, update, create, raced, deleted>>
           ELSE IF index = 0
           THEN /\ Respond(p, 404, NoRoute)
                /\ UNCHANGED <<dbVars, now, submit, upload, update, create, raced, deleted>>
           ELSE IF ~Permitted(Routes[index], caller)
           THEN /\ Respond(p, 403, Forbidden)
                /\ UNCHANGED <<dbVars, now, submit, upload, update, create, raced, deleted>>
           ELSE LET handler == Routes[index].handler
                    id == ParamOf(Routes[index], req.path)
                IN  CASE handler = "createFormation" ->
                           CreateFormation(p, caller.organizationId, caller.userId,
                                           req.body.create, req.ok)
                      [] handler = "getFormations" ->
                           GetFormations(p, caller.organizationId, req.status, req.ok)
                      [] handler = "getFormationById" ->
                           GetFormationById(p, id, req.ok)
                      [] handler = "updateFormation" ->
                           UpdateFormation(p, id, req.body.put)
                      [] handler = "deleteFormation" ->
                           DeleteFormation(p, id, req.ok)
                      [] handler = "uploadFormationFile" ->
                           UploadRequest(p, id, caller.organizationId, req.body.file, req.ok)
                      [] handler = "createQuiz" ->
                           CreateQuizInsert(p, id, req.body.quiz, req.ok)
                      [] handler = "getQuiz" ->
                           GetQuiz(p, id, req.ok)
                      [] handler = "submitQuiz" ->
                           \E correctOf \in FetchOutcomes(id) :
                               SubmitQuiz(p, caller.userId, id, req.body.submit, req.ok,
                                          correctOf)
                      [] handler = "getQuizResults" ->
                           GetQuizResults(p, id, req.ok)
                      [] handler = "updateProgress" ->
                           UpdateProgress(p, caller.userId, id, req.body.progress, req.ok)
                      [] handler = "getUserProgress" ->
                           GetUserProgress(p, caller.userId, caller.organizationId, req.ok)
                      [] handler = "getFormationProgress" ->
                           GetFormationProgress(p, id, req.ok)

-----------------------------------------------------------------------------
(* Stored data the specifications start from: rows as createFormation and      *)
(* POST /formations/:id/quiz store them.                                       *)


SeedFormation(id, org) ==
    [id |-> id, organization_id |-> org, name |-> "n1", type |-> "video",
     description |-> NullText, duration_minutes |-> 0, status |-> "draft",
     file_url |-> NullPath, file_name |-> NullPath, file_size |-> 0,
     created_by |-> "u1", updated_at |-> 0]

SeedQuiz(id, formationId, passing_score) ==
    [id |-> id, formation_id |-> formationId, passing_score |-> passing_score,
     max_attempts |-> DefaultMaxAttempts]

SeedQuestion(id, quizId, points, order_index) ==
    [id |-> id, quiz_id |-> quizId, question_type |-> "multiple_choice",
     points |-> points, order_index |-> order_index]

SeedAnswer(id, questionId, is_correct, order_index) ==
    [id |-> id, question_id |-> questionId, is_correct |-> is_correct,
     order_index |-> order_index]

\* The table user_progress a database can have, by the script that created it.
\* the table of fix-formations-profiles-relation.sql
DeployedSchema == [progressUnique |-> TRUE, lastAccessedAt |-> TRUE]

\* the table of fix-schema.sql and run-fix-schema.js: no UNIQUE(user_id,
\* formation_id) and no column last_accessed_at
FixSchema == [progressUnique |-> FALSE, lastAccessedAt |-> FALSE]

Schemas == {DeployedSchema, FixSchema}

NoRequests ==
    /\ submit = [p \in Procs |-> Idle]
    /\ upload = [p \in Procs |-> Idle]
    /\ update = [p \in Procs |-> Idle]
    /\ create = [p \in Procs |-> Idle]
    /\ response = [p \in Procs |-> NoResponse]
    /\ raced = {}
    /\ deleted = {}

-----------------------------------------------------------------------------
(* SpecSubmit: concurrent submissions of two users to one stored quiz.         *)

SubmitAnswers ==
    { << [questionId |-> 1, answerId |-> 1] >>, << [questionId |-> 1, answerId |-> 2] >> }

InitSubmit ==
    /\ formations = {SeedFormation(1, "orgA")}
    /\ quizzes = {SeedQuiz(1, 1, DefaultPassingScore)}
    /\ quiz_questions = {SeedQuestion(1, 1, 1, 0)}
    /\ quiz_answers = {SeedAnswer(1, 1, TRUE, 0), SeedAnswer(2, 1, FALSE, 1)}
    /\ user_quiz_results = {}
    /\ user_progress = {}
    /\ schema = DeployedSchema
    /\ storage = {}
    /\ nextId = [formation |-> 2, quiz |-> 2, question |-> 2, answer |-> 3, result |-> 1,
                 progress |-> 1]
    /\ now = 0
    /\ NoRequests

NextSubmit ==
    \/ \E p \in Procs, u \in Users, q \in {1, 2}, a \in SubmitAnswers, ok \in BOOLEAN :
          \E c \in FetchOutcomes(q) : SubmitFetchQuiz(p, u, q, a, ok, c)
    \/ \E p \in Procs, ok \in BOOLEAN : SubmitReadAttempts(p, ok)
    \/ \E p \in Procs, ok \in BOOLEAN : SubmitInsert(p, ok)
    \/ \E p \in Procs, ok \in BOOLEAN : DeleteFormation(p, 1, ok)

SpecSubmit == InitSubmit /\ [][NextSubmit]_vars

-----------------------------------------------------------------------------
(* Claims checked under SpecSubmit. *)

SameAttemptKey(r, s) ==
    r.user_id = s.user_id /\ r.quiz_id = s.quiz_id

\* the position of row r among the stored rows of its user and quiz, in insertion order
SubmissionIndex(r) ==
    Cardinality({s \in user_quiz_results : SameAttemptKey(r, s) /\ s.id <= r.id})

\* C1: when the submissions of a user to a quiz never overlapped, the k-th stored
\* submission of that user to that quiz has attempt_number = k (the first has 1).
C1_SequentialAttemptNumbers ==
    \A r \in user_quiz_results :
        <<r.user_id, r.quiz_id>> \notin raced => r.attempt_number = SubmissionIndex(r)

\* a step of submitQuizResult, whichever await it ends at
SubmitStepOfSpecSubmit ==
    \/ \E p \in Procs, u \in Users, q \in {1, 2}, a \in SubmitAnswers, ok \in BOOLEAN :
          \E c \in FetchOutcomes(q) : SubmitFetchQuiz(p, u, q, a, ok, c)
    \/ \E p \in Procs, ok \in BOOLEAN : SubmitReadAttempts(p, ok)
    \/ \E p \in Procs, ok \in BOOLEAN : SubmitInsert(p, ok)

\* the insert of request p is accepted and stores the row with the attempt number
\* the request read earlier
InsertStoresReadAttempt(p) ==
    /\ SubmitInsert(p, TRUE)
    /\ ResultRow(nextId.result, submit[p]) \in user_quiz_results'

\* C2: a submission that has read its attempt number and whose quiz is still stored
\* is never refused by the insert, also when a row with the same user, quiz and
\* attempt number was stored since it read; two such rows are reachable (the witness).
C2_DuplicateAttemptInsertAccepted ==
    \A p \in Procs :
        (submit[p] /= Idle /\ submit[p].pc = "insert" /\ submit[p].quizId \in Ids(quizzes))
            => ENABLED InsertStoresReadAttempt(p)

\* two rows of one user and quiz both numbered 2: both requests read attempt 1 as
\* the latest before either inserted
C2_Witness ==
    \E r, s \in user_quiz_results :
        /\ r.id /= s.id
        /\ SameAttemptKey(r, s)
        /\ r.attempt_number = 2
        /\ s.attempt_number = 2

\* C10: no step of submitQuizResult, succeeding or failing, removes or changes a
\* stored result row.
C10_SubmitOnlyAddsRows ==
    [][SubmitStepOfSpecSubmit => \A r \in user_quiz_results : r \in user_quiz_results']_vars

\* a later submission was stored and an earlier row of the same user and quiz is
\* still there, and a failed submission was answered 500 with rows stored
C10_Witness ==
    /\ \E r, s \in user_quiz_results :
          SameAttemptKey(r, s) /\ r.id < s.id /\ r.score /= s.score
    /\ \E p \in Procs : response[p].status = 500

\* C13: a failure the persistence service reports during POST /quiz/:quizId/submit,
\* at the fetch of the quiz, at the previous-attempts read or at the insert, ends the
\* request with HTTP 500 carrying the service's message
C13_FailureSurfacedAs500 ==
    [][\A p \in Procs :
          LET failed ==
                \/ SlotFree(p) /\ \E u \in Users, q \in {1, 2}, a \in SubmitAnswers :
                       \E c \in FetchOutcomes(q) : SubmitFetchQuiz(p, u, q, a, FALSE, c)
                \/ SubmitReadAttempts(p, FALSE)
                \/ SubmitInsert(p, FALSE)
          IN  failed => /\ response'[p] = [status |-> 500, message |-> PersistenceError,
                                           errors |-> {}, data |-> {}]
                        /\ submit'[p] = Idle]_vars

-----------------------------------------------------------------------------
(* SpecScore: one submission scored against every quiz of a bounded family.    *)
(* The quizzes of the family have between 0 and MaxQuestions questions (a quiz *)
(* whose question inserts all failed has none), question x worth x points with *)
(* the two answers 2x-1 and 2x, flagged in every way; passing scores include 0, *)
(* which column quizzes.passing_score and createQuizSchema both admit.         *)

ScorePassingScores == {0, 50, DefaultPassingScore, 100}

ScoreFlagPatterns == {<<TRUE, FALSE>>, <<FALSE, TRUE>>, <<TRUE, TRUE>>, <<FALSE, FALSE>>}

ScoreEntries ==
    UNION { {[questionId |-> x, answerId |-> a] : a \in {NullId, 2 * x - 1, 2 * x}} :
            x \in 1..MaxQuestions }

ScoreSubmissions == UNION { [1..k -> ScoreEntries] : k \in 0..MaxEntries }

InitScore ==
    /\ formations = {SeedFormation(1, "orgA")}
    /\ \E passing_score \in ScorePassingScores, n \in 0..MaxQuestions :
         \E flags \in [1..n -> ScoreFlagPatterns] :
            /\ quizzes = {SeedQuiz(1, 1, passing_score)}
            /\ quiz_questions = {SeedQuestion(x, 1, x, x - 1) : x \in 1..n}
            /\ quiz_answers =
                 UNION { {SeedAnswer(2 * x - 1, x, flags[x][1], 0),
                          SeedAnswer(2 * x, x, flags[x][2], 1)} : x \in 1..n }
            /\ nextId = [formation |-> 2, quiz |-> 2, question |-> n + 1,
                         answer |-> 2 * n + 1, result |-> 1,
                 progress |-> 1]
    /\ user_quiz_results = {}
    /\ user_progress = {}
    /\ schema = DeployedSchema
    /\ storage = {}
    /\ now = 0
    /\ NoRequests

NextScore ==
    \/ /\ user_quiz_results = {}
       /\ InFlightSubmits = {}
       /\ \E a \in ScoreSubmissions, ok \in BOOLEAN :
             \E c \in FetchOutcomes(1) : SubmitFetchQuiz(1, "u1", 1, a, ok, c)
    \/ \E ok \in BOOLEAN : SubmitReadAttempts(1, ok)
    \/ \E ok \in BOOLEAN : SubmitInsert(1, ok)

SpecScore == InitScore /\ [][NextScore]_vars

-----------------------------------------------------------------------------
(* Claims checked under SpecScore. *)

QuizOf(r) == CHOOSE q \in quizzes : q.id = r.quiz_id

FlaggedAnswerIds(questionId) ==
    {a.id : a \in {b \in AnswersOf({questionId}) : b.is_correct}}

\* some entry of the submission selects a flagged answer of the question
SomeEntrySelectsCorrect(r, questionId) ==
    \E i \in 1..Len(r.answers_data) :
        /\ r.answers_data[i].questionId = questionId
        /\ r.answers_data[i].answerId \in FlaggedAnswerIds(questionId)

\* the first entry of the submission for the question selects a flagged answer
FirstEntrySelectsCorrect(r, questionId) ==
    \E i \in 1..Len(r.answers_data) :
        /\ r.answers_data[i].questionId = questionId
        /\ \A j \in 1..(i - 1) : r.answers_data[j].questionId /= questionId
        /\ r.answers_data[i].answerId \in FlaggedAnswerIds(questionId)

ScoreIs(r, percent) == r.score.num = percent * r.score.den

\* C3 as claimed: whenever every question of the quiz has a submitted entry that
\* selects its correct answer, the stored score is 100 and passed is true.
C3_Original ==
    \A r \in user_quiz_results :
        (\A x \in QuestionsOf({r.quiz_id}) : SomeEntrySelectsCorrect(r, x.id))
            => (ScoreIs(r, 100) /\ r.passed)

\* C3 as amended: for a quiz with at least one question, each with exactly one
\* flagged answer, whenever the first submitted entry for every question selects
\* that answer, the stored score is 100 and passed is true.
C3_AllCorrectScores100 ==
    \A r \in user_quiz_results :
        LET qs == QuestionsOf({r.quiz_id})
        IN  (/\ qs /= {}
             /\ \A x \in qs : Cardinality(FlaggedAnswerIds(x.id)) = 1
             /\ \A x \in qs : FirstEntrySelectsCorrect(r, x.id))
                => (ScoreIs(r, 100) /\ r.passed)

\* two questions both answered correctly against a passing score of 100, the
\* correct answer of the second being its second answer
C3_Witness ==
    \E r \in user_quiz_results :
        /\ Cardinality(QuestionsOf({r.quiz_id})) = 2
        /\ \A x \in QuestionsOf({r.quiz_id}) :
              Cardinality(FlaggedAnswerIds(x.id)) = 1 /\ FirstEntrySelectsCorrect(r, x.id)
        /\ 4 \in FlaggedAnswerIds(2)
        /\ QuizOf(r).passing_score = 100
        /\ r.passed

AscendingOrderIndex(rows) ==
    \A i, j \in 1..Len(rows) : i < j => rows[i].order_index <= rows[j].order_index

\* C21: every order in which getQuizById can return the questions of a stored
\* quiz, and the answers of each of its questions, is ascending in order_index
C21_FetchOrderedByIndex ==
    \A q \in quizzes :
        /\ \A questions \in EmbeddedQuestions(q.id) : AscendingOrderIndex(questions)
        /\ \A x \in QuestionsOf({q.id}) :
              \A answers \in EmbeddedAnswers(x.id) : AscendingOrderIndex(answers)

\* C30: a question is counted correct exactly when some entry of the submission
\* for it selects one of its flagged answers, whichever of several flagged answers
\* and whichever of several entries that is
C30_AnyFlaggedAnyEntryCounts ==
    \A r \in user_quiz_results :
        r.correct_answers =
            Cardinality({x \in QuestionsOf({r.quiz_id}) : SomeEntrySelectsCorrect(r, x.id)})

-----------------------------------------------------------------------------
(* SpecCascade: quizzes being created for stored formations while formations  *)
(* are deleted.                                                              *)

CascadeAnswer(is_correct) == [is_correct |-> is_correct, order_index |-> {}]

CascadeQuestion(answers) ==
    [question_type |-> {}, points |-> {}, order_index |-> {}, answers |-> answers]

CascadeBodies ==
    { [passing_score |-> {}, max_attempts |-> {}, questions |-> qs] :
        qs \in { << >>,
                 << CascadeQuestion(<< CascadeAnswer(TRUE) >>) >>,
                 << CascadeQuestion(<< CascadeAnswer(TRUE), CascadeAnswer(FALSE) >>),
                    CascadeQuestion(<< CascadeAnswer(TRUE) >>) >> } }

InitCascade ==
    /\ formations = {SeedFormation(i, "orgA") : i \in 1..MaxFormations}
    /\ quizzes = {}
    /\ quiz_questions = {}
    /\ quiz_answers = {}
    /\ user_quiz_results = {}
    /\ user_progress = {}
    /\ schema = DeployedSchema
    /\ storage = {}
    /\ nextId = [formation |-> MaxFormations + 1, quiz |-> 1, question |-> 1,
                 answer |-> 1, result |-> 1,
                 progress |-> 1]
    /\ now = 0
    /\ NoRequests

NextCascade ==
    \/ \E p \in Procs, f \in 1..MaxFormations, b \in CascadeBodies, ok \in BOOLEAN :
          CreateQuizInsert(p, f, b, ok)
    \/ \E p \in Procs, ok \in BOOLEAN : CreateQuizAddQuestion(p, ok)
    \/ \E p \in Procs, ok \in BOOLEAN : CreateQuizAddAnswers(p, ok)
    \/ \E p \in Procs, ok \in BOOLEAN : CreateQuizFetch(p, ok)
    \/ \E p \in Procs, f \in 1..MaxFormations, ok \in BOOLEAN : DeleteFormation(p, f, ok)

SpecCascade == InitCascade /\ [][NextCascade]_vars

-----------------------------------------------------------------------------
(* Claims checked under SpecCascade. *)

\* the stored rows that hang, through the chain of references, under formation f
QuestionsUnder(f) ==
    {x \in quiz_questions : \A q \in quizzes : q.id = x.quiz_id => q.formation_id = f}

AnswersUnder(f) ==
    {a \in quiz_answers :
        \A x \in quiz_questions : x.id = a.question_id => x \in QuestionsUnder(f)}

\* C7: once deleteFormation(f) has succeeded, no quiz with formation_id = f is
\* stored, every stored question belongs to a stored quiz of another formation and
\* every stored answer to such a question: nothing of the chain
\* formation -> quiz -> question -> answer under f remains.
C7_DeleteCascades ==
    \A f \in deleted :
        /\ QuizzesOf({f}) = {}
        /\ QuestionsUnder(f) = {}
        /\ AnswersUnder(f) = {}

\* answers had been stored, a deleteFormation succeeded while a formation remains,
\* and no answer is left: the cascade removed a whole chain
C7_Witness ==
    /\ deleted /= {}
    /\ formations /= {}
    /\ nextId.answer > 2
    /\ nextId.question > 2
    /\ quizzes = {} /\ quiz_questions = {} /\ quiz_answers = {}

\* C19: when the insert of a question or of a question's answers fails during
\* POST /formations/:id/quiz, the request is answered 500 and every stored row,
\* the quiz and the questions and answers inserted before the failure included,
\* stays as it was
C19_NoRollback ==
    [][\A p \in Procs :
          (/\ create[p] /= Idle
           /\ create[p].pc \in {"question", "answers"}
           /\ create'[p] = Idle)
          => /\ response'[p].status = 500
             /\ response'[p].message = PersistenceError
             /\ UNCHANGED dbVars]_vars

\* no request is in flight, a request was answered 500, and a stored quiz has a
\* question without answers: the insert of its answers had failed
C19_Witness ==
    /\ \A p \in Procs : create[p] = Idle
    /\ \E p \in Procs : response[p].status = 500
    /\ \E q \in quizzes, x \in quiz_questions :
          /\ x.quiz_id = q.id
          /\ AnswersOf({x.id}) = {}

\* C20: the questions of a quiz created through POST /formations/:id/quiz
\* without explicit order_index are stored with their positions in the request,
\* so two stored questions of one quiz never have the same order_index
C20_DistinctOrderIndex ==
    \A x, y \in quiz_questions :
        (x.quiz_id = y.quiz_id /\ x.id /= y.id) => x.order_index /= y.order_index

-----------------------------------------------------------------------------
(* SpecFormation: updates of a stored formation and file uploads, while the   *)
(* clock advances.                                                           *)

Organizations == {"orgA", "orgB"}

\* the body of PUT /formations/:id that holds the keys K
UpdateBody(K) ==
    [name |-> IF "name" \in K THEN {"n2"} ELSE {},
     type |-> IF "type" \in K THEN {"pdf"} ELSE {},
     description |-> IF "description" \in K THEN {"d2"} ELSE {},
     duration_minutes |-> IF "duration_minutes" \in K THEN {5} ELSE {},
     status |-> IF "status" \in K THEN {"inactive"} ELSE {},
     organization_id |-> IF "organization_id" \in K THEN {"orgB"} ELSE {}]

\* request bodies: no key, one key, all keys but one and all keys of the schema, a
\* body with a key the schema does not list, and a body with an invalid name
UpdateBodies ==
    {UpdateBody(K) : K \in {{}, SchemaKeys}}
        \cup {UpdateBody({k}) : k \in SchemaKeys}
        \cup {UpdateBody(SchemaKeys \ {k}) : k \in SchemaKeys}
        \cup {UpdateBody({"name", "organization_id"}),
              [UpdateBody({"name", "status"}) EXCEPT !.name = {""}]}

UploadFiles ==
    { [mimetype |-> "application/pdf", originalname |-> <<"a", " ", ".", "p", "d", "f">>,
       size |-> 1],
      [mimetype |-> "image/png", originalname |-> <<"b">>, size |-> 2],
      [mimetype |-> "text/plain", originalname |-> <<"a", ".", "p", "d", "f">>,
       size |-> 1] }

InitFormation ==
    /\ formations = {[SeedFormation(1, "orgA") EXCEPT !.status = "active",
                                                      !.duration_minutes = 30]}
    /\ quizzes = {}
    /\ quiz_questions = {}
    /\ quiz_answers = {}
    /\ user_quiz_results = {}
    /\ user_progress = {}
    /\ schema = DeployedSchema
    /\ storage = {}
    /\ nextId = [formation |-> 2, quiz |-> 1, question |-> 1, answer |-> 1, result |-> 1,
                 progress |-> 1]
    /\ now = 1
    /\ NoRequests

\* PUT requests are served in slot 1, uploads in slot 2
NextFormation ==
    \/ Tick
    \/ \E f \in {1, 2}, b \in UpdateBodies : UpdateFormation(1, f, b)
    \/ \E ok \in BOOLEAN, trigger \in BOOLEAN : UpdateFormationApply(1, ok, trigger)
    \/ \E f \in {1, 2}, o \in Organizations, file \in Opt(UploadFiles), ok \in BOOLEAN :
          UploadRequest(2, f, o, file, ok)
    \/ \E ok \in BOOLEAN, trigger \in BOOLEAN : UploadUpdate(2, ok, trigger)

SpecFormation == InitFormation /\ [][NextFormation]_vars

-----------------------------------------------------------------------------
(* Claims checked under SpecFormation. *)

\* the step in which the PUT /formations/:id of slot p is applied and answered 200
PutSucceeds(p) ==
    /\ update[p] /= Idle
    /\ response'[p].status = 200
    /\ \E trigger \in BOOLEAN : UpdateFormationApply(p, TRUE, trigger)

\* g is f with exactly the keys present in b replaced by b's values
PatchedBy(f, g, b) ==
    /\ \A k \in SchemaKeys :
          IF b[k] = {} THEN g[k] = f[k] ELSE g[k] = TheOnly(b[k])
    /\ g.id = f.id
    /\ g.organization_id = f.organization_id
    /\ g.created_by = f.created_by
    /\ g.file_url = f.file_url
    /\ g.file_name = f.file_name
    /\ g.file_size = f.file_size

\* the rows other than formation id are kept, and no row is added
OtherFormationsKept(id) ==
    /\ \A f \in formations : f.id /= id => f \in formations'
    /\ Ids(formations') = Ids(formations)
    /\ Cardinality(formations') = Cardinality(formations)

\* C8 as stated: a successful PUT with a partial payload changes exactly the
\* payload's fields and updated_at, and updated_at is set to a later timestamp on
\* every update.
C8_Original ==
    [][\A p \in Procs :
          PutSucceeds(p) =>
              /\ OtherFormationsKept(update[p].formationId)
              /\ \A f \in formations : f.id = update[p].formationId =>
                    \E g \in formations' :
                        /\ PatchedBy(f, g, update[p].body)
                        /\ g.updated_at > f.updated_at]_vars

\* C8: a successful PUT with a partial payload changes exactly the payload's fields
\* and updated_at: every field absent from the payload keeps its prior value, and
\* updated_at is set to a reading of the clock taken during the request (when the
\* update was sent or when it was applied), whatever the prior value was.
C8_PartialUpdateFrame ==
    [][\A p \in Procs :
          PutSucceeds(p) =>
              /\ OtherFormationsKept(update[p].formationId)
              /\ \A f \in formations : f.id = update[p].formationId =>
                    \E g \in formations' :
                        /\ PatchedBy(f, g, update[p].body)
                        /\ g.updated_at >= update[p].timestamp
                        /\ g.updated_at <= now]_vars

\* a PUT holding only name was answered 200 after the clock advanced: the name is
\* the payload's, status and duration_minutes are the stored ones, not the defaults
C8_Witness ==
    /\ response[1].status = 200
    /\ \E f \in formations :
          /\ f.name = "n2"
          /\ f.status = "active"
          /\ f.duration_minutes = 30
          /\ f.type = "video"
          /\ f.updated_at = MaxClock

\* an upload request of slot p carrying a file of a type outside the allow-list
UnlistedUploadRequest(p) ==
    /\ SlotFree(p)
    /\ now' = now
    /\ update' = update
    /\ \E id \in {1, 2}, o \in Organizations, file \in UploadFiles, ok \in BOOLEAN :
          /\ file.mimetype \notin AllowedTypes
          /\ UploadRequest(p, id, o, {file}, ok)

\* C9: an upload request whose file type is not in the allow-list is ended by the
\* file filter: the handler does not run for it (no upload is left in flight), no
\* object is added to storage and no formation row changes.
C9_UnlistedTypeRejected ==
    [][\A p \in Procs :
          UnlistedUploadRequest(p) =>
              /\ storage' = storage
              /\ formations' = formations
              /\ upload'[p] = Idle
              /\ response'[p].message = FileTypeNotAllowed]_vars

\* the filter ended an upload request: nothing is in flight for the slot, nothing is
\* stored and no formation has a file
C9_Witness ==
    /\ \E p \in Procs : response[p].message = FileTypeNotAllowed /\ upload[p] = Idle
    /\ \A f \in formations : f.file_url = NullPath
    /\ storage = {}

-----------------------------------------------------------------------------
(* SpecProgress: users recording their progress on a stored formation, on a   *)
(* database created by either script.                                        *)

ProgressBodies ==
    [progress_percentage : Opt({0, 50, 101}), status : {{"in_progress"}, {"completed"}}]

InitProgress ==
    /\ formations = {SeedFormation(1, "orgA")}
    /\ quizzes = {}
    /\ quiz_questions = {}
    /\ quiz_answers = {}
    /\ user_quiz_results = {}
    /\ user_progress = {}
    /\ schema \in Schemas
    /\ storage = {}
    /\ nextId = [formation |-> 2, quiz |-> 1, question |-> 1, answer |-> 1, result |-> 1,
                 progress |-> 1]
    /\ now = 0
    /\ NoRequests

NextProgress ==
    \/ \E p \in Procs, u \in Users, f \in {1, 2}, b \in ProgressBodies, ok \in BOOLEAN :
          UpdateProgress(p, u, f, b, ok)
    \/ \E p \in Procs, ok \in BOOLEAN : DeleteFormation(p, 1, ok)
    \/ Tick

SpecProgress == InitProgress /\ [][NextProgress]_vars

-----------------------------------------------------------------------------
(* Claims checked under SpecProgress. *)

ProgressOf(userId, formationId) ==
    {r \in user_progress : r.user_id = userId /\ r.formation_id = formationId}

\* a call of updateProgress by userId for formationId with a valid body, during
\* which the persistence service reports no failure of its own
ProgressCall(userId, formationId, body) ==
    /\ ValidProgressBody(body)
    /\ \E p \in Procs : UpdateProgress(p, userId, formationId, body, TRUE)

\* C11: user_progress holds at most one row per (user_id, formation_id), and a call
\* of updateProgress for a user and formation that already have a row updates that
\* row (it then holds the values of the call) instead of adding a row or failing.
C11_UpsertKeepsOneRow ==
    [][\A u \in Users, f \in {1, 2} :
          /\ Cardinality(ProgressOf(u, f)') <= 1
          /\ \A b \in ProgressBodies :
                (ProgressOf(u, f) /= {} /\ ProgressCall(u, f, b)) =>
                    \E r \in ProgressOf(u, f)' :
                        /\ r.progress_percentage = TheOnly(b.progress_percentage)
                        /\ r.status = TheOnly(b.status)]_vars

C25_OnlyOwnProgressRow ==
    [][\A u \in Users :
          \/ /\ \A r \in user_progress' \ user_progress : r.user_id = u
             /\ \A r \in user_progress \ user_progress' : r.user_id = u
          \/ ~\E p \in Procs, f \in {1, 2}, b \in ProgressBodies, ok \in BOOLEAN :
                 UpdateProgress(p, u, f, b, ok)]_vars

\* the row of u2 was stored while the row u1 had stored before stays as it was
C25_Witness ==
    \E r, s \in user_progress :
        /\ r.user_id = "u1" /\ s.user_id = "u2"
        /\ r.id < s.id
        /\ r.progress_percentage /= s.progress_percentage
        /\ response[1].status = 200 \/ response[2].status = 200

-----------------------------------------------------------------------------
(* SpecValidation: requests with valid and invalid bodies to the five          *)
(* endpoints that validate a body, served one after the other in slot 1.      *)

CreateBodies ==
    {UpdateBody({"name", "type"}), UpdateBody({"name"}),
     [UpdateBody({"name", "type"}) EXCEPT !.name = {""}],
     [UpdateBody({"name", "type"}) EXCEPT !.type = {"exe"}]}

PutBodies ==
    {UpdateBody({"status"}),
     [UpdateBody({"name"}) EXCEPT !.name = {""}],
     [UpdateBody({"name", "duration_minutes"}) EXCEPT !.duration_minutes = {-1}]}

SubmitEntry(questionId, answerId) == [questionId |-> questionId, answerId |-> answerId]

SubmitBodies ==
    {[answers |-> {<< SubmitEntry(1, NullId) >>}, timeSpent |-> {5}],
     [answers |-> {}, timeSpent |-> {}],
     [answers |-> {<< SubmitEntry(-1, 1) >>}, timeSpent |-> {}],
     [answers |-> {<< SubmitEntry(1, 1) >>}, timeSpent |-> {-1}]}

ValidationQuizBodies ==
    {b \in CascadeBodies : Len(b.questions) <= 1}

InitValidation ==
    /\ formations = {SeedFormation(1, "orgA")}
    /\ quizzes = {SeedQuiz(1, 1, DefaultPassingScore)}
    /\ quiz_questions = {SeedQuestion(1, 1, 1, 0)}
    /\ quiz_answers = {SeedAnswer(1, 1, TRUE, 0), SeedAnswer(2, 1, FALSE, 1)}
    /\ user_quiz_results = {}
    /\ user_progress = {}
    /\ schema = DeployedSchema
    /\ storage = {}
    /\ nextId = [formation |-> 2, quiz |-> 2, question |-> 2, answer |-> 3, result |-> 1,
                 progress |-> 1]
    /\ now = 0
    /\ NoRequests

NextValidation ==
    \/ \E b \in CreateBodies, ok \in BOOLEAN : CreateFormation(1, "orgA", "u1", b, ok)
    \/ \E b \in PutBodies : UpdateFormation(1, 1, b)
    \/ \E ok \in BOOLEAN : UpdateFormationApply(1, ok, FALSE)
    \/ \E b \in ValidationQuizBodies, ok \in BOOLEAN : CreateQuizInsert(1, 1, b, ok)
    \/ \E ok \in BOOLEAN : CreateQuizAddQuestion(1, ok)
    \/ \E ok \in BOOLEAN : CreateQuizAddAnswers(1, ok)
    \/ \E ok \in BOOLEAN : CreateQuizFetch(1, ok)
    \/ \E b \in SubmitBodies, ok \in BOOLEAN :
          \E c \in FetchOutcomes(1) : SubmitQuiz(1, "u1", 1, b, ok, c)
    \/ \E ok \in BOOLEAN : SubmitReadAttempts(1, ok)
    \/ \E ok \in BOOLEAN : SubmitInsert(1, ok)
    \/ \E b \in ProgressBodies, ok \in BOOLEAN : UpdateProgress(1, "u1", 1, b, ok)

SpecValidation == InitValidation /\ [][NextValidation]_vars

-----------------------------------------------------------------------------
(* Claims checked under SpecValidation. *)

\* the request of slot p is answered 400 with the violations, no stored row changes
\* and no call of the service is left in flight for the slot
RejectedWith(p, violations) ==
    /\ response'[p] = [status |-> 400, message |-> InvalidData, errors |-> violations,
                       data |-> {}]
    /\ violations /= {}
    /\ UNCHANGED dbVars
    /\ submit'[p] = Idle /\ update'[p] = Idle /\ create'[p] = Idle /\ upload'[p] = Idle

\* C12: for createFormation, updateFormation, createQuiz, submitQuiz and
\* updateProgress, a request whose body violates the endpoint's schema is answered
\* 400 with the list of violations, and none of the service's operations runs for
\* it: no stored row changes and nothing is in flight afterwards.
C12_InvalidBodyRejected ==
    [][\A p \in Procs : SlotFree(p) =>
          /\ \A b \in CreateBodies :
                (CreateViolations(b) /= {} /\
                   \E ok \in BOOLEAN : CreateFormation(p, "orgA", "u1", b, ok))
                => RejectedWith(p, CreateViolations(b))
          /\ \A b \in PutBodies :
                (UpdateViolations(b) /= {} /\ UpdateFormation(p, 1, b))
                => RejectedWith(p, UpdateViolations(b))
          /\ \A b \in ValidationQuizBodies :
                (QuizViolations(b) /= {} /\
                   \E ok \in BOOLEAN : CreateQuizInsert(p, 1, b, ok))
                => RejectedWith(p, QuizViolations(b))
          /\ \A b \in SubmitBodies :
                (SubmitViolations(b) /= {} /\
                   \E ok \in BOOLEAN :
                      \E c \in FetchOutcomes(1) : SubmitQuiz(p, "u1", 1, b, ok, c))
                => RejectedWith(p, SubmitViolations(b))
          /\ \A b \in ProgressBodies :
                (ProgressViolations(b) /= {} /\
                   \E ok \in BOOLEAN : UpdateProgress(p, "u1", 1, b, ok))
                => RejectedWith(p, ProgressViolations(b))]_vars

\* an invalid createQuiz body was answered 400 after rows had been stored by valid
\* requests, and nothing is in flight
C12_Witness ==
    /\ response[1].status = 400
    /\ response[1].errors = {"questions"}
    /\ create[1] = Idle
    /\ user_quiz_results /= {}
    /\ user_progress /= {}

-----------------------------------------------------------------------------
(* SpecRouter: requests of an anonymous caller, an admin and a member of       *)
(* organization orgA to every route, against a stored formation of orgB and   *)
(* its quiz.                                                                   *)

Caller(authenticated, userId, organizationId, role) ==
    [authenticated |-> authenticated, userId |-> userId,
     organizationId |-> organizationId, role |-> role]

Anonymous == Caller(FALSE, "u2", "orgA", "none")
AdminA == Caller(TRUE, "u1", "orgA", "admin")
MemberA == Caller(TRUE, "u2", "orgA", "member")

Callers == {Anonymous, AdminA, MemberA}

\* the method and path of every route, of the read by id for a second id, and of
\* one request no route matches
RouterTargets ==
    { <<Routes[i].method,
        [j \in 1..Len(Routes[i].pattern) |->
            IF IsParam(Routes[i].pattern[j]) THEN "1" ELSE Routes[i].pattern[j]]>> :
        i \in 1..Len(Routes) }
    \cup { <<"GET", <<"2">> >>, <<"PUT", << >> >> }

\* the targets whose route has a role check
CheckedTargets ==
    {t \in RouterTargets : /\ Dispatch(t[1], t[2]) /= 0
                           /\ Routes[Dispatch(t[1], t[2])].permissions /= {}}

\* the one valid body of each kind, and the file, this specification sends
RouterBodies ==
    [create |-> UpdateBody({"name", "type"}),
     put |-> UpdateBody({"status"}),
     quiz |-> [passing_score |-> {}, max_attempts |-> {},
               questions |-> << CascadeQuestion(<< CascadeAnswer(TRUE) >>) >>],
     submit |-> [answers |-> {<< SubmitEntry(1, 1) >>}, timeSpent |-> {}],
     progress |-> [progress_percentage |-> {50}, status |-> {"in_progress"}],
     file |-> {[mimetype |-> "application/pdf", originalname |-> <<"b">>, size |-> 1]}]

RouterRequest(caller, method, path, status, ok) ==
    [caller |-> caller, method |-> method, path |-> path, body |-> RouterBodies,
     status |-> status, ok |-> ok]

\* the status filter goes to the list only; a request without a valid token is
\* answered before any query
RouterRequests ==
    { RouterRequest(c, t[1], t[2], {}, ok) :
        c \in Callers \ {Anonymous}, t \in RouterTargets, ok \in BOOLEAN }
    \cup { RouterRequest(Anonymous, t[1], t[2], {}, TRUE) : t \in RouterTargets }
    \cup { RouterRequest(c, "GET", << >>, {"draft"}, ok) :
             c \in Callers \ {Anonymous}, ok \in BOOLEAN }

\* a stored result of u2 and a stored progress row of u1, as submitQuiz and
\* updateProgress store them; the ids 2 were given to rows deleted since
InitRouter ==
    /\ formations = {SeedFormation(1, "orgB")}
    /\ quizzes = {SeedQuiz(1, 1, DefaultPassingScore)}
    /\ quiz_questions = {SeedQuestion(1, 1, 1, 0)}
    /\ quiz_answers = {SeedAnswer(1, 1, TRUE, 0), SeedAnswer(2, 1, FALSE, 1)}
    /\ user_quiz_results =
          {ResultRow(1, [userId |-> "u2", quizId |-> 1, score |-> 100,
                         totalQuestions |-> 1, correctAnswers |-> 1, passed |-> TRUE,
                         attemptNumber |-> 1, answers |-> << SubmitEntry(1, 1) >>])}
    /\ user_progress =
          {ProgressRow(1, "u1", 1,
                       [progress_percentage |-> {50}, status |-> {"in_progress"}], 0)}
    /\ schema = DeployedSchema
    /\ storage = {}
    /\ nextId = [formation |-> 2, quiz |-> 2, question |-> 2, answer |-> 3, result |-> 3,
                 progress |-> 3]
    /\ now = 0
    /\ NoRequests

NextRouter ==
    \/ \E req \in RouterRequests : Request(1, req)
    \/ \E ok \in BOOLEAN : UpdateFormationApply(1, ok, FALSE)
    \/ \E ok \in BOOLEAN : UploadUpdate(1, ok, FALSE)
    \/ \E ok \in BOOLEAN : CreateQuizAddQuestion(1, ok)
    \/ \E ok \in BOOLEAN : CreateQuizAddAnswers(1, ok)
    \/ \E ok \in BOOLEAN : CreateQuizFetch(1, ok)
    \/ \E ok \in BOOLEAN : SubmitReadAttempts(1, ok)
    \/ \E ok \in BOOLEAN : SubmitInsert(1, ok)

SpecRouter == InitRouter /\ [][NextRouter]_vars

-----------------------------------------------------------------------------
(* Claims checked under SpecRouter. *)

\* an authenticated GET of /<id> for a uuid no stored formation has
ReadsMissingFormation(req) ==
    /\ req.caller.authenticated
    /\ req.method = "GET"
    /\ Len(req.path) = 1
    /\ UuidOf(req.path[1]) /= NullId
    /\ UuidOf(req.path[1]) \notin Ids(formations)

\* an authenticated GET of /quiz/<id> for a uuid no stored quiz has
ReadsMissingQuiz(req) ==
    /\ req.caller.authenticated
    /\ req.method = "GET"
    /\ Len(req.path) = 2
    /\ req.path[1] = "quiz"
    /\ UuidOf(req.path[2]) /= NullId
    /\ UuidOf(req.path[2]) \notin Ids(quizzes)

\* C14: GET /formations/:id for an id with no stored formation and GET /quiz/:quizId
\* for an id with no stored quiz are answered 404 (never 200 or 500), whether or not
\* the query itself fails
C14_MissingIdAnswered404 ==
    [][SlotFree(1) =>
         \A c \in {AdminA, MemberA}, path \in {<<"1">>, <<"2">>, <<"quiz", "1">>},
            ok \in BOOLEAN :
            LET req == RouterRequest(c, "GET", path, {}, ok)
            IN  (/\ ReadsMissingFormation(req) \/ ReadsMissingQuiz(req)
                 /\ Request(1, req))
                => /\ response'[1].status = 404
                   /\ response'[1].message =
                         IF ReadsMissingQuiz(req) THEN QuizNotFound ELSE FormationNotFound
                   /\ response'[1].data = {}]_vars

\* quiz 1 was read after the delete of its formation removed it, and answered 404
C14_Witness ==
    /\ response[1].status = 404
    /\ response[1].message = QuizNotFound
    /\ 1 \in deleted
    /\ 1 \notin Ids(quizzes)

\* C15: PUT /formations/:id and DELETE /formations/:id on an id with no stored
\* formation, and POST /quiz/:quizId/submit on an id with no stored quiz, are
\* answered 404 and leave the stored data as it was (the persistence service
\* reporting no failure of its own)
C15_MissingTargetAnswered404 ==
    [][LET missing ==
             \/ /\ SlotFree(1)
                /\ 1 \notin Ids(formations)
                /\ Request(1, RouterRequest(AdminA, "DELETE", <<"1">>, {}, TRUE))
             \/ /\ SlotFree(1)
                /\ 1 \notin Ids(quizzes)
                /\ \E c \in {AdminA, MemberA} :
                      Request(1, RouterRequest(c, "POST", <<"quiz", "1", "submit">>, {},
                                               TRUE))
             \/ /\ update[1] /= Idle
                /\ update[1].formationId \notin Ids(formations)
                /\ UpdateFormationApply(1, TRUE, FALSE)
       IN  missing => /\ response'[1].status = 404
                      /\ UNCHANGED dbVars]_vars

\* C16: a request without a valid token is answered before any handler runs; a
\* request of a caller whose role is outside {admin, owner} to a route with the
\* role check is answered 403 before its handler runs; so no request of either
\* caller inserts, changes or deletes a formation, quiz, question or answer row or
\* a stored file, nor starts a create, update or upload that later would
C16_HandlersBehindMiddleware ==
    [][SlotFree(1) =>
         LET refused(status) == /\ response'[1].status = status
                                /\ UNCHANGED <<dbVars, submit, update, create, upload>>
             guarded == UNCHANGED <<formations, quizzes, quiz_questions, quiz_answers,
                                    storage, update, create, upload>>
         IN  /\ guarded \/ ~\E c \in {Anonymous, MemberA}, t \in RouterTargets,
                               ok \in BOOLEAN :
                               Request(1, RouterRequest(c, t[1], t[2], {}, ok))
             /\ refused(401) \/ ~\E t \in RouterTargets :
                                    Request(1, RouterRequest(Anonymous, t[1], t[2], {}, TRUE))
             /\ refused(403) \/ ~\E t \in CheckedTargets :
                                    Request(1, RouterRequest(MemberA, t[1], t[2], {}, TRUE))]_vars

\* a member was refused with formation 2, created by the admin, stored
C16_Witness ==
    /\ response[1].status = 403
    /\ response[1].message = Forbidden
    /\ 2 \in Ids(formations)

\* the stored formations of another organization than the caller's
ForeignFormations(caller) ==
    {f \in formations : f.organization_id /= caller.organizationId}

\* C17: the list returns only formations of the caller's organization (with the
\* status asked for, when one is), and no request of a caller reads by id, updates,
\* deletes or attaches a file or a quiz to a formation of another organization
C17_OrganizationScoped ==
    [][SlotFree(1) =>
         \A req \in RouterRequests :
            LET foreign == Ids(ForeignFormations(req.caller))
                handler == Routes[Dispatch(req.method, req.path)].handler
            IN  (/\ req.caller.authenticated
                 /\ Dispatch(req.method, req.path) /= 0
                 /\ Request(1, req))
                => /\ handler = "getFormations" =>
                         \A id \in response'[1].data :
                            \E f \in formations :
                               /\ f.id = id
                               /\ f.organization_id = req.caller.organizationId
                               /\ req.status /= {} => f.status = TheOnly(req.status)
                   /\ handler = "getFormationById" =>
                         response'[1].data \cap foreign = {}
                   /\ \A f \in ForeignFormations(req.caller) : f \in formations'
                   /\ update'[1] /= Idle => update'[1].formationId \notin foreign
                   /\ upload'[1] /= Idle => upload'[1].formationId \notin foreign
                   /\ \A q \in quizzes' \ quizzes : q.formation_id \notin foreign]_vars

\* C18: GET /progress of an authenticated caller is dispatched to getUserProgress
\* and, the query succeeding, answered 200 with the caller's own progress rows
C18_ProgressRouteDispatched ==
    [][SlotFree(1) =>
         \A c \in {AdminA, MemberA} :
            Request(1, RouterRequest(c, "GET", <<"progress">>, {}, TRUE))
            => /\ Routes[Dispatch("GET", <<"progress">>)].handler = "getUserProgress"
               /\ response'[1].status = 200
               /\ response'[1].message = ProgressFetched
               /\ response'[1].data = Ids({r \in user_progress : r.user_id = c.userId})]_vars

-----------------------------------------------------------------------------
(* SpecAttempts: concurrent submissions of two users to two stored quizzes:   *)
(* quiz 1 with max_attempts 1 and a multiple-choice question, quiz 2 with a   *)
(* text question whose answer is flagged (createQuizSchema asks every         *)
(* question, of whatever type, for at least one answer with is_correct).      *)

AttemptsAnswers == { << SubmitEntry(1, 1), SubmitEntry(2, 3) >> }

InitAttempts ==
    /\ formations = {SeedFormation(1, "orgA")}
    /\ quizzes = {[SeedQuiz(1, 1, DefaultPassingScore) EXCEPT !.max_attempts = 1],
                  SeedQuiz(2, 1, DefaultPassingScore)}
    /\ quiz_questions = {SeedQuestion(1, 1, 1, 0),
                         [SeedQuestion(2, 2, 1, 0) EXCEPT !.question_type = "text"]}
    /\ quiz_answers = {SeedAnswer(1, 1, TRUE, 0), SeedAnswer(2, 1, FALSE, 1),
                       SeedAnswer(3, 2, TRUE, 0)}
    /\ user_quiz_results = {}
    /\ user_progress = {}
    /\ schema = DeployedSchema
    /\ storage = {}
    /\ nextId = [formation |-> 2, quiz |-> 3, question |-> 3, answer |-> 4, result |-> 1,
                 progress |-> 1]
    /\ now = 0
    /\ NoRequests

NextAttempts ==
    \/ \E p \in Procs, u \in Users, q \in {1, 2}, a \in AttemptsAnswers, ok \in BOOLEAN :
          \E c \in FetchOutcomes(q) : SubmitFetchQuiz(p, u, q, a, ok, c)
    \/ \E p \in Procs, ok \in BOOLEAN : SubmitReadAttempts(p, ok)
    \/ \E p \in Procs, ok \in BOOLEAN : SubmitInsert(p, ok)

SpecAttempts == InitAttempts /\ [][NextAttempts]_vars

-----------------------------------------------------------------------------
(* Claims checked under SpecAttempts. *)

\* the stored results of the user for the quiz
ResultsOfUser(userId, quizId) ==
    {r \in user_quiz_results : r.user_id = userId /\ r.quiz_id = quizId}

\* C22: a question of type text is never counted: correct_answers of a stored
\* result is at most the number of the quiz's questions that are not of type text
C22_TextQuestionNeverCorrect ==
    \A r \in user_quiz_results :
        r.correct_answers <=
            Cardinality({x \in QuestionsOf({r.quiz_id}) : x.question_type /= "text"})

\* C23: the insert of a submission that the persistence service does not fail is
\* stored and answered 200 however many results the user already has for the
\* quiz: max_attempts is not consulted
C23_MaxAttemptsNotChecked ==
    [][\A p \in Procs :
          (/\ submit[p].pc = "insert"
           /\ SubmitInsert(p, TRUE))
          => /\ ResultRow(nextId.result, submit[p]) \in user_quiz_results'
             /\ response'[p].status = 200]_vars

\* the user has two stored results, numbered 1 and 2, for quiz 1, whose
\* max_attempts is 1
C23_Witness ==
    \E u \in Users :
        /\ \A q \in quizzes : q.id = 1 => q.max_attempts = 1
        /\ {r.attempt_number : r \in ResultsOfUser(u, 1)} = {1, 2}

\* C28: the attempt number a submission reads is 1 when the user has no stored
\* result for the quiz (or the read fails) and otherwise the highest
\* attempt_number of the user's results for that quiz plus 1, whatever other
\* users' results and results for other quizzes are stored; and the insert of a
\* submission adds at most one row, of its user and quiz, and changes nothing else
C28_AttemptNumberOfUserAndQuiz ==
    [][\A p \in Procs :
          /\ (submit[p].pc = "attempts" /\ \E ok \in BOOLEAN : SubmitReadAttempts(p, ok))
             => LET mine == ResultsOfUser(submit[p].userId, submit[p].quizId)
                IN  /\ submit'[p].attemptNumber \in
                          {1} \cup {Max({r.attempt_number : r \in mine \cup
                                           {[attempt_number |-> 0]}}) + 1}
                    /\ SubmitReadAttempts(p, TRUE) =>
                          submit'[p].attemptNumber =
                             Max({r.attempt_number : r \in mine \cup
                                     {[attempt_number |-> 0]}}) + 1
                    /\ UNCHANGED dbVars
          /\ (submit[p].pc = "insert" /\ \E ok \in BOOLEAN : SubmitInsert(p, ok))
             => /\ user_quiz_results \subseteq user_quiz_results'
                /\ Cardinality(user_quiz_results' \ user_quiz_results) <= 1
                /\ \A r \in user_quiz_results' \ user_quiz_results :
                      r.user_id = submit[p].userId /\ r.quiz_id = submit[p].quizId
                /\ UNCHANGED <<formations, quizzes, quiz_questions, quiz_answers,
                               user_progress, storage>>]_vars

\* u1 was given attempt 1 on quiz 1 by a row stored after a row of u2 for quiz 1
\* and a row of u1 for quiz 2
C28_Witness ==
    \E r \in ResultsOfUser("u1", 1) :
        /\ r.attempt_number = 1
        /\ ResultsOfUser("u1", 1) = {r}
        /\ \E s \in ResultsOfUser("u2", 1) : s.id < r.id
        /\ \E s \in ResultsOfUser("u1", 2) : s.id < r.id


-----------------------------------------------------------------------------
(* SpecIntegrity: the steps of createQuiz and of submitQuizResult, the       *)
(* deleteFormation and the updateProgress of concurrent requests, in any     *)
(* order, on two formations; formation 2 starts with a quiz, a result and a  *)
(* progress row.                                                             *)

\* one question with one answer; passing_score and max_attempts absent or sent
IntegrityBodies ==
    {[b EXCEPT !.passing_score = ps, !.max_attempts = ma] :
        b \in {c \in CascadeBodies : Len(c.questions) = 1},
        ps \in Opt({0, 100}), ma \in Opt({1})}

IntegrityAnswers == {<< SubmitEntry(1, 1) >>}

IntegrityProgress ==
    {b \in ProgressBodies : b.progress_percentage = {50} /\ b.status = {"in_progress"}}

InitIntegrity ==
    /\ formations = {SeedFormation(i, "orgA") : i \in 1..MaxFormations}
    /\ quizzes = {SeedQuiz(1, 2, DefaultPassingScore)}
    /\ quiz_questions = {SeedQuestion(1, 1, 1, 0)}
    /\ quiz_answers = {SeedAnswer(1, 1, TRUE, 0)}
    /\ user_quiz_results =
          {ResultRow(1, [userId |-> "u1", quizId |-> 1, score |-> 100,
                         totalQuestions |-> 1, correctAnswers |-> 1, passed |-> TRUE,
                         attemptNumber |-> 1, answers |-> << SubmitEntry(1, 1) >>])}
    /\ user_progress =
          {ProgressRow(1, "u1", 2,
                       [progress_percentage |-> {50}, status |-> {"in_progress"}], 0)}
    /\ schema = DeployedSchema
    /\ storage = {}
    /\ nextId = [formation |-> MaxFormations + 1, quiz |-> 2, question |-> 2,
                 answer |-> 2, result |-> 3, progress |-> 3]
    /\ now = 0
    /\ NoRequests

\* createQuiz requests are served in slot 1, submissions in slot 2
NextIntegrity ==
    \/ \E f \in 1..MaxFormations, b \in IntegrityBodies, ok \in BOOLEAN :
          CreateQuizInsert(1, f, b, ok)
    \/ \E ok \in BOOLEAN : CreateQuizAddQuestion(1, ok)
    \/ \E ok \in BOOLEAN : CreateQuizAddAnswers(1, ok)
    \/ \E ok \in BOOLEAN : CreateQuizFetch(1, ok)
    \/ \E p \in Procs, f \in 1..MaxFormations, ok \in BOOLEAN : DeleteFormation(p, f, ok)
    \/ \E q \in 1..MaxQuizzes, a \in IntegrityAnswers, ok \in BOOLEAN :
          \E c \in FetchOutcomes(q) : SubmitFetchQuiz(2, "u1", q, a, ok, c)
    \/ \E ok \in BOOLEAN : SubmitReadAttempts(2, ok)
    \/ \E ok \in BOOLEAN : SubmitInsert(2, ok)
    \/ \E p \in Procs, f \in 1..MaxFormations, b \in IntegrityProgress, ok \in BOOLEAN :
          UpdateProgress(p, "u1", f, b, ok)

SpecIntegrity == InitIntegrity /\ [][NextIntegrity]_vars

-----------------------------------------------------------------------------
(* Claims checked under SpecIntegrity. *)

\* every stored row references a stored parent
ReferencesHold ==
    /\ \A q \in quizzes : q.formation_id \in Ids(formations)
    /\ \A x \in quiz_questions : x.quiz_id \in Ids(quizzes)
    /\ \A a \in quiz_answers : a.question_id \in Ids(quiz_questions)
    /\ \A r \in user_quiz_results : r.quiz_id \in Ids(quizzes)
    /\ \A r \in user_progress : r.formation_id \in Ids(formations)

\* the createQuiz of slot p has inserted its quiz and the quiz is no longer stored
QuizGone(p) ==
    /\ create[p] /= Idle
    /\ create[p].pc \in {"question", "answers"}
    /\ create[p].quizId \notin Ids(quizzes)

\* C26: under any interleaving of the steps of createQuiz, deleteFormation,
\* submitQuizResult and updateProgress every stored quiz, question, answer,
\* progress row and result row references a stored parent; and the step of a
\* createQuiz whose quiz went with its deleted formation is answered 500 and
\* stores no row
C26_NoOrphans ==
    /\ ReferencesHold
    /\ [][/\ ReferencesHold'
          /\ \A p \in Procs :
                (QuizGone(p) /\ create'[p] /= create[p])
                => /\ response'[p].status = 500
                   /\ create'[p] = Idle
                   /\ quiz_questions' = quiz_questions
                   /\ quiz_answers' = quiz_answers]_vars

\* a deleteFormation was answered 200 in one slot while the createQuiz of the
\* other slot, whose quiz went with the formation, has its next insert pending,
\* and rows of the other formation are stored
C26_Witness ==
    \E p, o \in Procs :
        /\ QuizGone(p)
        /\ o /= p
        /\ response[o].status = 200
        /\ deleted /= {}
        /\ quizzes /= {}
        /\ user_progress /= {}

\* C27: a quiz created with passing_score p in 0..100 and max_attempts m >= 1 is
\* stored with exactly p and m; the defaults 70 and 3 are stored only for a key
\* the body omits
C27_QuizFieldsStoredAsSent ==
    [][\A f \in 1..MaxFormations, b \in IntegrityBodies :
          (/\ SlotFree(1)
           /\ ValidQuizBody(b)
           /\ CreateQuizInsert(1, f, b, TRUE))
          => \A q \in quizzes' \ quizzes :
                /\ q.passing_score = IF b.passing_score = {} THEN DefaultPassingScore
                                      ELSE TheOnly(b.passing_score)
                /\ q.max_attempts = IF b.max_attempts = {} THEN DefaultMaxAttempts
                                     ELSE TheOnly(b.max_attempts)]_vars

-----------------------------------------------------------------------------
(* Claim on the upload, checked under SpecFormation. *)

\* C29: when a POST /formations/:id/upload is answered with an error status, the
\* storage holds no file of that request: a request refused before the storage
\* upload leaves the storage as it was, and a request whose formation update
\* fails after the storage upload does not leave the uploaded file behind
C29_ErrorLeavesNoFile ==
    [][\A p \in Procs :
          (response'[p] /= response[p] /\ response'[p].status >= 400)
          => /\ upload[p] = Idle => storage' = storage
             /\ upload[p] /= Idle => [path |-> upload[p].url] \notin storage']_vars

====
